---- MODULE Spec2Model ----
(***************************************************************************)
(* SkylineSprint: the match lifecycle (GameManager), the roster            *)
(* (MatchManager) and the race tracker (RaceManager), with the countdown   *)
(* helper timedIntervalActionFunction of GameUtils.                        *)
(*                                                                         *)
(* Local broadcast events are delivered synchronously inside the sender,   *)
(* so a handler and everything it triggers is one action.  The order in    *)
(* which the subscribers of one event run is the order of their            *)
(* registration, which the code does not fix: it is chosen in Init.        *)
(* The network broadcast onResetWorld is delivered asynchronously.         *)
(***************************************************************************)
EXTENDS Integers, Sequences, FiniteSets, TLC

\* ---------------------------------------------------------------- bounds
Players == {"A", "B", "C"}      \* identities that may ever enter the world
MainPlayers == {"A", "B"}        \* the ones that enter under Spec
StartTicks == 2                 \* timeToMatchStartMS in 1000 ms ticks
EndTicks == 1                   \* timeToMatchEndMS in ticks
NewTicks == 1                   \* timeNewMatchReadyMS in ticks
MaxNeeded == 2                  \* largest playersNeededForMatch tried
MaxClock == 2                   \* cap of the accumulated match clock
MaxDelta == 1                   \* largest frame delta time
MaxPos == 1                     \* length of the track in metres
MaxInFlight == 1                \* undelivered onResetWorld broadcasts
MaxResets == 1                  \* world resets raised in a run with delayed delivery
MaxOrphans == 1                 \* sampling intervals left running by direct requests
MaxRacers == 10                 \* records in raceParticipants when the roll-call is formatted
MaxFrame == 2                   \* largest frame delta time under SpecClock
ClockCap == 3                   \* cap of the match clock under SpecClock
MaxN == 22                      \* largest index of a control point under SpecCurve
GridSteps == 16                 \* arguments k/GridSteps of interpolate under SpecCurve and SpecSearch
MaxCoord == 1                   \* largest coordinate of the second control point under SpecSearch
MaxCountdown == 5               \* longest start countdown under SpecCountdown, in units of 500 ms

\* ------------------------------------------------------ program constants
TickMS == 1000
timeToMatchStartMS == StartTicks * TickMS
timeToMatchEndMS == EndTicks * TickMS
timeNewMatchReadyMS == NewTicks * TickMS

ReadyForMatch == "ReadyForMatch"
StartingMatch == "StartingMatch"
PlayingMatch == "PlayingMatch"
EndingMatch == "EndingMatch"
CompletedMatch == "CompletedMatch"
GameState == {ReadyForMatch, StartingMatch, PlayingMatch, EndingMatch, CompletedMatch}

Lobby == "Lobby"
Standby == "Standby"
Playing == "Playing"
NoEntry == "NoEntry"            \* playerMap.get(id) === undefined
PlayerGameStatus == {Lobby, Standby, Playing}

VARIABLES
  present,               \* world.getPlayers()
  currentGameState,      \* GameManager.currentGameState
  startMatchTimer,       \* the interval startMatchTimerID names
  endMatchTimer,         \* the interval endMatchTimerID names
  newMatchTimer,         \* the interval newMatchTimerID names
  overwrittenLive,       \* live countdowns whose id was overwritten
  lastKnownGameState,    \* MatchManager.lastKnownGameState
  playerMap,             \* MatchManager.playerMap (status or NoEntry)
  raceParticipants,      \* RaceManager.raceParticipants
  raceWinners,           \* RaceManager.raceWinners, in insertion order
  matchTime,             \* RaceManager.matchTime
  raceUpdateInterval,    \* the interval raceUpdateIntervalID names is live
  orphanIntervals,       \* live sampling intervals whose id was lost
  resetMM,               \* onResetWorld broadcasts not yet seen by MatchManager
  resetRM,               \* onResetWorld broadcasts not yet seen by RaceManager
  playersNeededForMatch, \* GameManager.props.playersNeededForMatch
  rosterFirst,           \* MatchManager subscribed to onGameStateChanged before RaceManager
  gmExitFirst,           \* GameManager subscribed to OnPlayerExitWorld before MatchManager
  universe,              \* the identities that enter in this run
  asyncReset,            \* other events may overtake an undelivered onResetWorld
  resetsRaised,          \* world resets raised so far when asyncReset
  bcast,                 \* onGameStateChanged broadcasts of the last step
  transited,             \* result of the last transitGameState call of the last step
  request,               \* the (from, to) of a direct transition request
  rankSent,              \* playerPos of the onRacePosUpdate sent in the last step (0: none)
  totalSent,             \* totalRacers of the onRacePosUpdate sent in the last step
  stopSent,              \* onStopRacePosUpdates sent to each player in the last step
  signals,               \* roster broadcasts of the last step, in order
  uiText,                \* texts set on the race UI in the last step, in order
  sampled,               \* the last step was a callback of the sampling interval
  countdown,             \* the countdown event broadcast in the last step
  raceCurve,             \* RaceManager.raceCurve.controlPoints
  curveCall              \* the last call of a method of raceCurve: its argument and result

vars == <<present, currentGameState, startMatchTimer, endMatchTimer, newMatchTimer,
          overwrittenLive, lastKnownGameState, playerMap, raceParticipants,
          raceWinners, matchTime, raceUpdateInterval, orphanIntervals, resetMM,
          resetRM, playersNeededForMatch, rosterFirst, gmExitFirst, universe,
          asyncReset, resetsRaised, bcast, transited, request, rankSent,
          totalSent, stopSent, signals, uiText, sampled, countdown, raceCurve, curveCall>>

config == <<playersNeededForMatch, rosterFirst, gmExitFirst, universe, asyncReset>>

\* ------------------------------------------------------------- helpers
NoTimer == [live |-> FALSE, timerMS |-> 0, elapsedMS |-> 0]
NoParticipant == [in |-> FALSE, lastKnownRaceTime |-> 0, lastKnownRaceProgress |-> 0,
                  lastKnownPosition |-> 0, won |-> FALSE]
NewParticipant == [in |-> TRUE, lastKnownRaceTime |-> 0, lastKnownRaceProgress |-> 0,
                   lastKnownPosition |-> 0, won |-> FALSE]
NoRanks == [p \in Players |-> 0]
NoRequest == <<"none", "none">>
NoCountdown == [event |-> "none", timeLeftMS |-> 0]

\* the program state as one record, so that nested synchronous calls compose
Cur ==
  [present |-> present, currentGameState |-> currentGameState,
   startMatchTimer |-> startMatchTimer, endMatchTimer |-> endMatchTimer,
   newMatchTimer |-> newMatchTimer, overwrittenLive |-> overwrittenLive,
   lastKnownGameState |-> lastKnownGameState, playerMap |-> playerMap,
   raceParticipants |-> raceParticipants, raceWinners |-> raceWinners,
   matchTime |-> matchTime, raceUpdateInterval |-> raceUpdateInterval,
   orphanIntervals |-> orphanIntervals, resetMM |-> resetMM, resetRM |-> resetRM,
   resetsRaised |-> resetsRaised,
   bcast |-> <<>>, transited |-> "none", request |-> NoRequest, rankSent |-> NoRanks,
   totalSent |-> NoRanks, stopSent |-> NoRanks, signals |-> <<>>, uiText |-> <<>>,
   sampled |-> FALSE, countdown |-> NoCountdown]

Commit(s) ==
  /\ present' = s.present
  /\ currentGameState' = s.currentGameState
  /\ startMatchTimer' = s.startMatchTimer
  /\ endMatchTimer' = s.endMatchTimer
  /\ newMatchTimer' = s.newMatchTimer
  /\ overwrittenLive' = s.overwrittenLive
  /\ lastKnownGameState' = s.lastKnownGameState
  /\ playerMap' = s.playerMap
  /\ raceParticipants' = s.raceParticipants
  /\ raceWinners' = s.raceWinners
  /\ matchTime' = s.matchTime
  /\ raceUpdateInterval' = s.raceUpdateInterval
  /\ orphanIntervals' = s.orphanIntervals
  /\ resetMM' = s.resetMM
  /\ resetRM' = s.resetRM
  /\ resetsRaised' = s.resetsRaised
  /\ bcast' = s.bcast
  /\ transited' = s.transited
  /\ request' = s.request
  /\ rankSent' = s.rankSent
  /\ totalSent' = s.totalSent
  /\ stopSent' = s.stopSent
  /\ signals' = s.signals
  /\ uiText' = s.uiText
  /\ sampled' = s.sampled
  /\ countdown' = s.countdown
  /\ UNCHANGED config
  /\ UNCHANGED <<raceCurve, curveCall>>

\* ------------------------------------------------- the arithmetic of number
\* A JavaScript number is an IEEE 754 binary64 value. Natural numbers of any
\* size are sequences of limbs, least significant first, without leading
\* zero limbs; a finite number is (-1)^s * m * 2^e with m = 0 or
\* 2^52 <= m < 2^53, and every operation rounds its exact result to the
\* nearest such value, ties to even. The values of the curve stay in the
\* range of the normal numbers.
LimbBits == 15
LimbBase == 32768
MantissaBits == 53
MantissaLimbs == 4

Max(a, b) == IF a > b THEN a ELSE b
Min(a, b) == IF a < b THEN a ELSE b

BLimb(a, i) == IF i >= 1 /\ i <= Len(a) THEN a[i] ELSE 0

\* the limbs f[1], ..., f[n] as a sequence
Limbs(f, n) == SubSeq(f, 1, n)

\* a without its leading zero limbs
BTrim(a) ==
  IF a = <<>> THEN a
  ELSE SubSeq(a, 1, Cardinality({i \in 1..Len(a) : \E j \in i..Len(a) : a[j] # 0}))

\* a natural number below LimbBase^3
BFromNat(n) == BTrim(<<n % LimbBase, (n \div LimbBase) % LimbBase, n \div (LimbBase * LimbBase)>>)
BToNat(a) == BLimb(a, 1) + LimbBase * BLimb(a, 2) + LimbBase * LimbBase * BLimb(a, 3)

\* a < b: the highest limb in which they differ is smaller in a
BLess(a, b) ==
  LET n == Max(Len(a), Len(b)) IN
  \E i \in 1..n :
    /\ BLimb(a, i) < BLimb(b, i)
    /\ \A k \in (i + 1)..n : BLimb(a, k) = BLimb(b, k)

BCmp(a, b) == IF BLess(a, b) THEN -1 ELSE IF BLess(b, a) THEN 1 ELSE 0

\* a + b: limb i receives a carry when a lower limb overflows and every limb
\* between the two passes a carry on
BAdd(a, b) ==
  LET n == Max(Len(a), Len(b))
      v == Limbs([i \in 1..(n + 1) |-> BLimb(a, i) + BLimb(b, i)], n + 1) IN
  IF n = 0 THEN <<>>
  ELSE
  BTrim(Limbs([i \in 1..(n + 1) |->
                 (v[i] + IF \E j \in 1..(i - 1) :
                              /\ v[j] >= LimbBase
                              /\ \A k \in (j + 1)..(i - 1) : v[k] = LimbBase - 1
                           THEN 1 ELSE 0) % LimbBase], n + 1))

\* a - b for a >= b: limb i lends when a lower limb is too small and every
\* limb between the two passes the debt on
BSub(a, b) ==
  IF b = <<>> THEN BTrim(a)
  ELSE
  BTrim(Limbs([i \in 1..Len(a) |->
                 (a[i] + LimbBase - BLimb(b, i)
                    - IF \E j \in 1..(i - 1) :
                           /\ a[j] < BLimb(b, j)
                           /\ \A k \in (j + 1)..(i - 1) : a[k] = BLimb(b, k)
                      THEN 1 ELSE 0) % LimbBase], Len(a)))

BShiftLimbs(a, k) == IF a = <<>> THEN a ELSE [i \in 1..k |-> 0] \o a

\* a * k for k < LimbBase: the low halves of the limb products plus their
\* high halves one limb up
BMulSmall(a, k) ==
  IF a = <<>> \/ k = 0 THEN <<>>
  ELSE
  BAdd(Limbs([i \in 1..Len(a) |-> (a[i] * k) % LimbBase], Len(a)),
       <<0>> \o [i \in 1..Len(a) |-> (a[i] * k) \div LimbBase])

\* a * b for a of at most MantissaLimbs limbs: column i sums the low halves
\* of the limb products of weight i and the high halves of those of weight
\* i - 1
BMul(a, b) ==
  LET prod(i, k) == BLimb(a, i) * BLimb(b, k + 1 - i)
      lo(k) == (prod(1, k) % LimbBase) + (prod(2, k) % LimbBase)
                 + (prod(3, k) % LimbBase) + (prod(4, k) % LimbBase)
      hi(k) == (prod(1, k) \div LimbBase) + (prod(2, k) \div LimbBase)
                 + (prod(3, k) \div LimbBase) + (prod(4, k) \div LimbBase)
      n == Len(a) + Len(b)
      col == Limbs([k \in 1..n |-> lo(k) + hi(k - 1)], n) IN
  IF a = <<>> \/ b = <<>> THEN <<>>
  ELSE
  BAdd(Limbs([k \in 1..n |-> col[k] % LimbBase], n),
       <<0>> \o [k \in 1..n |-> col[k] \div LimbBase])

\* a * 2^n
BShl(a, n) == IF a = <<>> THEN a ELSE BShiftLimbs(BMulSmall(a, 2^(n % LimbBits)), n \div LimbBits)

\* a \div 2^n
BShr(a, n) ==
  LET k == n \div LimbBits
      r == n % LimbBits
      d == IF k >= Len(a) THEN <<>> ELSE SubSeq(a, k + 1, Len(a)) IN
  IF d = <<>> THEN d
  ELSE
  BTrim(Limbs([i \in 1..Len(d) |->
                 (d[i] \div 2^r) + (BLimb(d, i + 1) % 2^r) * 2^(LimbBits - r)], Len(d)))

\* bit n of a, bit 0 the least significant
BBit(a, n) == (BLimb(a, n \div LimbBits + 1) \div 2^(n % LimbBits)) % 2

\* the n low bits of a are all 0
BLowZero(a, n) ==
  /\ \A i \in 1..(n \div LimbBits) : BLimb(a, i) = 0
  /\ BLimb(a, n \div LimbBits + 1) % 2^(n % LimbBits) = 0

BitLenSmall(v) == Cardinality({k \in 0..(LimbBits - 1) : 2^k <= v})

BBitLen(a) == IF a = <<>> THEN 0 ELSE (Len(a) - 1) * LimbBits + BitLenSmall(a[Len(a)])

\* one step of long division by d, whose highest limb is at least
\* LimbBase / 2: the remainder r of the higher limbs, r < d, takes the next
\* limb; the quotient limb is estimated from the two highest limbs of the
\* running remainder and is at most 2 too large
BDivTake(r1, d, q) == [q |-> q, r |-> BSub(r1, BMulSmall(d, q))]

BDivCorrect(r1, d, qhat) ==
  BDivTake(r1, d, IF ~BLess(r1, BMulSmall(d, qhat)) THEN qhat
                  ELSE IF ~BLess(r1, BMulSmall(d, qhat - 1)) THEN qhat - 1
                  ELSE qhat - 2)

BDivEstimate(r1, d) ==
  BDivCorrect(r1, d, Min(LimbBase - 1,
                         (BLimb(r1, Len(d) + 1) * LimbBase + BLimb(r1, Len(d))) \div d[Len(d)]))

BDivStep(r, limb, d) ==
  IF r = <<>> /\ limb = 0 THEN [q |-> 0, r |-> <<>>]
  ELSE BDivEstimate(BTrim(<<limb>> \o r), d)

\* the quotient limbs so far, least significant first, and the remainder,
\* after one more step on a limb 0
BDivJoin(q, step) == [q |-> <<step.q>> \o q, r |-> step.r]
BDivNext(prev, d) == BDivJoin(prev.q, BDivStep(prev.r, 0, d))

\* n * LimbBase^4 divided by d for n and d of MantissaLimbs limbs
BDivide(n, d) ==
  BDivNext(BDivNext(BDivNext(BDivNext(
    BDivJoin(<<>>, BDivStep(SubSeq(n, 2, MantissaLimbs), n[1], d)), d), d), d), d)

FZero == [s |-> 0, m |-> <<>>, e |-> 0]

\* the values that a division by 0 gives: Infinity of either sign, and NaN
Infinity(s) == [s |-> s, inf |-> TRUE]
IsInfinity(a) == "inf" \in DOMAIN a
NaN == [nan |-> TRUE]

\* (-1)^s * (M + f) * 2^E rounded to the nearest number, ties to even, where
\* 0 <= f < 1 and sticky tells whether f > 0: M loses its d low bits, q is
\* what is left of it and q1 is q after rounding
FRoundUp(s, q1, E) ==
  IF BBitLen(q1) > MantissaBits
    THEN [s |-> s, m |-> BShr(q1, 1), e |-> E + 1]
    ELSE [s |-> s, m |-> q1, e |-> E]

FRoundCut(s, M, E, sticky, d, q) ==
  FRoundUp(s, IF BBit(M, d - 1) = 1 /\ (~BLowZero(M, d - 1) \/ sticky \/ BBit(q, 0) = 1)
                THEN BAdd(q, <<1>>) ELSE q,
           E + d)

FRoundLen(s, M, E, sticky, L) ==
  IF L = 0 THEN FZero
  ELSE IF L <= MantissaBits
    THEN [s |-> s, m |-> BShl(M, MantissaBits - L), e |-> E - (MantissaBits - L)]
  ELSE FRoundCut(s, M, E, sticky, L - MantissaBits, BShr(M, L - MantissaBits))

FRound(s, M, E, sticky) == FRoundLen(s, M, E, sticky, BBitLen(M))

fromInt(n) == FRound(IF n < 0 THEN 1 ELSE 0, BFromNat(IF n < 0 THEN -n ELSE n), 0, FALSE)

fneg(a) == IF a.m = <<>> THEN a ELSE [a EXCEPT !.s = 1 - @]

\* the sum of (-1)^sa * Ma * 2^e and (-1)^sb * Mb * 2^e
FAddAligned(sa, Ma, sb, Mb, e) ==
  FRound(IF sa = sb \/ BLess(Mb, Ma) THEN sa ELSE sb,
         IF sa = sb THEN BAdd(Ma, Mb)
         ELSE IF BLess(Mb, Ma) THEN BSub(Ma, Mb) ELSE BSub(Mb, Ma),
         e, FALSE)

\* a + b, where at most one of a and b is infinite
fadd(a, b) ==
  IF IsInfinity(a) THEN a
  ELSE IF IsInfinity(b) THEN b
  ELSE IF a.m = <<>> THEN b
  ELSE IF b.m = <<>> THEN a
  ELSE FAddAligned(a.s, BShl(a.m, a.e - Min(a.e, b.e)),
                   b.s, BShl(b.m, b.e - Min(a.e, b.e)), Min(a.e, b.e))

\* a - b
fsub(a, b) == fadd(a, fneg(b))

\* a * b
fmul(a, b) ==
  IF a.m = <<>> \/ b.m = <<>> THEN FZero
  ELSE FRound((a.s + b.s) % 2, BMul(a.m, b.m), a.e + b.e, FALSE)

\* the rounded quotient of sign s and exponent E from the limbs qr.q of the
\* quotient and the remainder qr.r
FDivRound(s, qr, E) == FRound(s, BTrim(qr.q), E, qr.r # <<>>)

\* a / b for a finite a: the mantissa of a times LimbBase^4 is divided by
\* that of b, limb by limb from the highest
fdiv(a, b) ==
  IF IsInfinity(b) THEN FZero
  ELSE IF b.m = <<>> THEN (IF a.m = <<>> THEN NaN ELSE Infinity(a.s))
  ELSE IF a.m = <<>> THEN FZero
  ELSE FDivRound((a.s + b.s) % 2,
                 BDivide(BShl(a.m, LimbBits * MantissaLimbs - MantissaBits),
                         BShl(b.m, LimbBits * MantissaLimbs - MantissaBits)),
                 a.e - b.e - LimbBits * MantissaLimbs)

\* a < 0
FNegative(a) == a.m # <<>> /\ a.s = 1

\* a < b
fless(a, b) == FNegative(fsub(a, b))

\* Math.abs(a)
fabs(a) == [a EXCEPT !.s = 0]

\* Math.floor(a), for a result that is a small integer
ffloor(a) ==
  IF a.m = <<>> THEN 0
  ELSE IF a.e >= 0 THEN (IF a.s = 0 THEN 1 ELSE -1) * BToNat(BShl(a.m, a.e))
  ELSE IF a.s = 0 THEN BToNat(BShr(a.m, -a.e))
  ELSE -(BToNat(BShr(a.m, -a.e)) + IF BLowZero(a.m, -a.e) THEN 0 ELSE 1)
\* ------------------------------------------------------------------ Curve
\* hz.Vec3
Vec3(x, y, z) == [x |-> x, y |-> y, z |-> z]

\* Vec3.sub and Vec3.magnitudeSquared
Vec3_sub(a, b) == Vec3(fsub(a.x, b.x), fsub(a.y, b.y), fsub(a.z, b.z))
Vec3_magnitudeSquared(v) == fadd(fadd(fmul(v.x, v.x), fmul(v.y, v.y)), fmul(v.z, v.z))

\* the literals 0.5, 1e-4 and 1.6180339887498948482
Half == fdiv(fromInt(1), fromInt(2))
searchTolerance == fdiv(fromInt(1), fromInt(10000))
gr == [s |-> 0, m |-> <<29864, 14127, 3550, 207>>, e |-> -52]

\* one coefficient of interpolateCatmullRom from one coordinate of the four
\* points
catmullCoefficient(c0, c1, c2, c3) ==
  fadd(fadd(fsub(fmul(fromInt(2), c1), fmul(fromInt(2), c2)), fmul(fsub(c2, c0), Half)),
       fmul(fsub(c3, c1), Half))

\* the locals of interpolateCatmullRom, in the order of their assignments
catmullPowers(t, t2) == [t2 |-> t2, t3 |-> fmul(t2, t)]

interpolateCatmullRomLocals(p0, p1, p2, p3, t) ==
  [x |-> catmullCoefficient(p0.x, p1.x, p2.x, p3.x),
   y |-> catmullCoefficient(p0.y, p1.y, p2.y, p3.y),
   z |-> catmullCoefficient(p0.z, p1.z, p2.z, p3.z)] @@ catmullPowers(t, fmul(t, t))

\* the Vec3 that interpolateCatmullRom returns
catmullPoint(l, p1, t) ==
  Vec3(fadd(fadd(fadd(fmul(l.x, l.t3), fmul(l.y, l.t2)), fmul(l.z, t)), p1.x), p1.y, p1.z)

interpolateCatmullRom(p0, p1, p2, p3, t) ==
  catmullPoint(interpolateCatmullRomLocals(p0, p1, p2, p3, t), p1, t)

\* the locals of interpolate(t), in the order of their assignments, and the
\* four indices it reads in controlPoints, counted from 0
interpolateSegment(controlPoints, t, n, index, t0, t1) ==
  [n |-> n, index |-> index, t0 |-> t0, t1 |-> t1,
   tNormalized |-> fdiv(fsub(t, t0), fsub(t1, t0)),
   at |-> <<Max(0, IF index > 1 THEN index - 1 ELSE 0),
            index,
            Min(n, IF index < n THEN index + 1 ELSE Len(controlPoints) - 1),
            Min(n, IF index < n - 1 THEN index + 2 ELSE Len(controlPoints) - 1)>>]

interpolateIndex(controlPoints, t, n, index) ==
  interpolateSegment(controlPoints, t, n, index,
                     IF index > 0 THEN fdiv(fromInt(index), fromInt(n)) ELSE FZero,
                     fdiv(fromInt(index + 1), fromInt(n)))

interpolateLocals(controlPoints, t) ==
  interpolateIndex(controlPoints, t, Len(controlPoints) - 1,
                   ffloor(fmul(t, fromInt(Len(controlPoints) - 1))))

interpolateIndices(controlPoints, t) == interpolateLocals(controlPoints, t).at

\* reading a property of controlPoints[k] for k outside 0..n throws
TypeError == [error |-> "TypeError"]
Threw(v) == "error" \in DOMAIN v

interpolateFrom(controlPoints, l) ==
  IF \A k \in 1..4 : l.at[k] \in 0..l.n
    THEN interpolateCatmullRom(controlPoints[l.at[1] + 1], controlPoints[l.at[2] + 1],
                               controlPoints[l.at[3] + 1], controlPoints[l.at[4] + 1],
                               l.tNormalized)
    ELSE TypeError

interpolate(controlPoints, t) == interpolateFrom(controlPoints, interpolateLocals(controlPoints, t))

calculateDistance(point1, point2) == Vec3_magnitudeSquared(Vec3_sub(point1, point2))

\* the function f of findClosestPointCurveProgress
distanceTo(target, point) ==
  IF Threw(point) THEN TypeError ELSE calculateDistance(target, point)

distanceAt(controlPoints, target, t) == distanceTo(target, interpolate(controlPoints, t))

\* the locals a, b, c and d of goldenSectionSearch before its loop
goldenSectionLocals(a, b) ==
  [a |-> a, b |-> b, c |-> fsub(b, fdiv(fsub(b, a), gr)), d |-> fadd(a, fdiv(fsub(b, a), gr))]

\* the loop body that leaves b alone when f(c) < f(d)
goldenSectionBody_keepsB(l, fc, fd) ==
  IF fless(fc, fd)
    THEN [a |-> l.a, b |-> l.b, c |-> fsub(l.b, fdiv(fsub(l.b, l.a), gr)), d |-> l.c]
    ELSE [a |-> l.c, b |-> l.b, c |-> l.d, d |-> fadd(l.c, fdiv(fsub(l.b, l.c), gr))]

\* the locals after one run of the loop body, fc and fd being f(c) and f(d)
goldenSectionBody(l, fc, fd) ==
  IF fless(fc, fd)
    THEN [a |-> l.a, b |-> l.d, c |-> fsub(l.d, fdiv(fsub(l.d, l.a), gr)), d |-> l.c]
    ELSE [a |-> l.c, b |-> l.b, c |-> l.d, d |-> fadd(l.c, fdiv(fsub(l.b, l.c), gr))]

\* the test of the while loop, and the value returned after it
goldenSectionGoesOn(l, tol) == fless(tol, fabs(fsub(l.b, l.a)))
goldenSectionResult(l) == fdiv(fadd(l.b, l.a), fromInt(2))

\* the loop of goldenSectionSearch; a call of f that throws ends the search
RECURSIVE goldenSectionLoop(_, _, _, _)
goldenSectionStep(controlPoints, target, l, tol, fc, fd) ==
  IF Threw(fc) \/ Threw(fd) THEN TypeError
  ELSE goldenSectionLoop(controlPoints, target, goldenSectionBody(l, fc, fd), tol)

goldenSectionLoop(controlPoints, target, l, tol) ==
  IF goldenSectionGoesOn(l, tol)
    THEN goldenSectionStep(controlPoints, target, l, tol,
                           distanceAt(controlPoints, target, l.c),
                           distanceAt(controlPoints, target, l.d))
    ELSE goldenSectionResult(l)

goldenSectionSearch(controlPoints, target, a, b, tol) ==
  goldenSectionLoop(controlPoints, target, goldenSectionLocals(a, b), tol)

Curve_findClosestPointCurveProgress(controlPoints, target) ==
  goldenSectionSearch(controlPoints, target, FZero, fromInt(1), searchTolerance)

\* the track of the race when the curve itself is not under study
DefaultTrack == <<Vec3(FZero, FZero, FZero), Vec3(fromInt(1), FZero, FZero)>>
NoCall == [fn |-> "none"]

\* ------------------------------------------------------- MatchManager
getPlayersWithStatus(s, status) == {p \in Players : s.playerMap[p] = status}

transferAllPlayersWithStatus(s, fromState, toState) ==
  [s EXCEPT !.playerMap = [p \in Players |-> IF @[p] = fromState THEN toState ELSE @[p]]]

transferPlayerWithStatus(s, p, fromState, toState) ==
  IF fromState = toState THEN s
  ELSE IF s.playerMap[p] = NoEntry THEN s
  ELSE [s EXCEPT !.playerMap[p] = toState]

\* handleGameStateTransit that moves only the Standby players into the match
handleGameStateTransit_standbyOnly(s, fromState, toState) ==
  LET s1 == [s EXCEPT !.lastKnownGameState = toState] IN
  IF fromState = StartingMatch /\ toState = PlayingMatch
    THEN transferAllPlayersWithStatus(s1, Standby, Playing)
  ELSE IF toState = CompletedMatch
    THEN [s1 EXCEPT !.playerMap = [p \in Players |-> IF @[p] = NoEntry THEN NoEntry ELSE Lobby]]
  ELSE s1

handleGameStateTransit(s, fromState, toState) ==
  LET s1 == [s EXCEPT !.lastKnownGameState = toState] IN
  IF fromState = StartingMatch /\ toState = PlayingMatch
    THEN transferAllPlayersWithStatus(
           transferAllPlayersWithStatus(s1, Standby, Playing), Lobby, Playing)
  ELSE IF toState = CompletedMatch
    THEN [s1 EXCEPT !.playerMap = [p \in Players |-> IF @[p] = NoEntry THEN NoEntry ELSE Lobby]]
  ELSE s1

\* reset that leaves lastKnownGameState as it is
MatchManager_reset_keepsPhase(s) ==
  [s EXCEPT !.playerMap = [p \in Players |-> NoEntry]]

MatchManager_reset(s) ==
  [s EXCEPT !.lastKnownGameState = ReadyForMatch,
            !.playerMap = [p \in Players |-> NoEntry]]

\* -------------------------------------------------------- RaceManager
\* a position counts half metres along the track from its start, MaxPos
\* metres long; the progress the search returns for a position is counted in
\* the same unit (progress 1 is ProgressOne); the search itself is
\* Curve_findClosestPointCurveProgress
Metre == 2
findClosestPointCurveProgress(pos) ==
  IF pos < 0 THEN 0 ELSE IF pos > Metre * MaxPos THEN Metre * MaxPos ELSE pos
ProgressOne == Metre * MaxPos

\* the test of updateAllRacerCurveProgress for any displacement at all
movedAppreciably_atAll(a, b) == a # b

\* distanceSquared(a, b) > distThresholdCheckProgress, the threshold being
\* 0.5 square metres
movedAppreciably(a, b) == 2 * ((a - b) * (a - b)) > Metre * Metre

\* the text of the race UI: the labelled lines in order, then the
\* 'Did Not Finish' lines, whose order is the iteration order of the map
defaultRaceUIText == [lines |-> <<>>, dnf |-> {}]
winStringLength == 8

handleUpdateRaceUI(s, text) == [s EXCEPT !.uiText = Append(@, text)]

\* msToMinutesAndSeconds for a clock value in whole seconds: the three fields
\* of the text "mm : ss : ff"
msToMinutesAndSeconds(time) ==
  LET baseTime == time
      minutes == baseTime \div 60
      seconds == IF baseTime % 60 = 60 THEN 0 ELSE baseTime % 60 IN
  [minutes |-> minutes, seconds |-> seconds, fraction |-> 0]

\* getWinnerRollCallString that labels every finisher, however many
getWinnerRollCallString_noCap(winningPlayers) ==
  [lines |-> [i \in 1..Len(winningPlayers) |->
                [label |-> i, player |-> winningPlayers[i].player,
                 time |-> msToMinutesAndSeconds(winningPlayers[i].time)]],
   dnf |-> {}]

getWinnerRollCallString(winningPlayers) ==
  LET maxNumOfWinners == IF winStringLength < Len(winningPlayers)
                           THEN winStringLength ELSE Len(winningPlayers) IN
  [lines |-> [i \in 1..maxNumOfWinners |->
                [label |-> i, player |-> winningPlayers[i].player,
                 time |-> msToMinutesAndSeconds(winningPlayers[i].time)]],
   dnf |-> {}]

\* the text handleOnMatchEnd displays: the labelled lines, then a 'Did Not
\* Finish' line for every record of raceParticipants that is not in raceWinners
rollCallAtMatchEnd(winners, participants) ==
  [getWinnerRollCallString(winners) EXCEPT !.dnf =
     {[player |-> p, time |-> msToMinutesAndSeconds(participants[p].lastKnownRaceTime)] :
        p \in {q \in DOMAIN participants : participants[q].in /\ ~participants[q].won}}]

\* reset without async.clearInterval(this.raceUpdateIntervalID)
RaceManager_reset_keepsInterval(s) ==
  [s EXCEPT !.stopSent = [p \in Players |-> IF s.raceParticipants[p].in THEN @[p] + 1 ELSE @[p]],
            !.orphanIntervals = IF s.raceUpdateInterval THEN @ + 1 ELSE @,
            !.raceUpdateInterval = FALSE,
            !.raceParticipants = [p \in Players |-> NoParticipant],
            !.raceWinners = <<>>,
            !.matchTime = 0]

RaceManager_reset(s) ==
  [s EXCEPT !.stopSent = [p \in Players |-> IF s.raceParticipants[p].in THEN @[p] + 1 ELSE @[p]],
            !.raceUpdateInterval = FALSE,
            !.raceParticipants = [p \in Players |-> NoParticipant],
            !.raceWinners = <<>>,
            !.matchTime = 0]

handleOnMatchStart(s) ==
  LET players == getPlayersWithStatus(s, Playing) IN
  [handleUpdateRaceUI(s, defaultRaceUIText)
     EXCEPT !.raceParticipants = [p \in Players |-> IF p \in players THEN NewParticipant ELSE @[p]],
            !.raceWinners = [i \in 1..Len(@) |->
                               IF @[i].player \in players THEN [@[i] EXCEPT !.stale = TRUE] ELSE @[i]],
            !.orphanIntervals = IF s.raceUpdateInterval THEN @ + 1 ELSE @,
            !.raceUpdateInterval = TRUE]

handleOnMatchEnd(s) ==
  LET rollCall == rollCallAtMatchEnd(s.raceWinners, s.raceParticipants) IN
  RaceManager_reset(handleUpdateRaceUI(s, rollCall))

\* updateAllRacerCurveProgress without the test raceWinners.has(participant)
updateAllRacerCurveProgress_winnersToo(s, pos) ==
  [s EXCEPT !.raceParticipants = [p \in Players |->
     IF @[p].in /\ movedAppreciably(pos[p], @[p].lastKnownPosition)
       THEN [@[p] EXCEPT !.lastKnownRaceProgress = findClosestPointCurveProgress(pos[p]),
                         !.lastKnownRaceTime = s.matchTime,
                         !.lastKnownPosition = pos[p]]
       ELSE @[p]]]

updateAllRacerCurveProgress(s, pos) ==
  [s EXCEPT !.raceParticipants = [p \in Players |->
     IF @[p].in /\ ~@[p].won /\ movedAppreciably(pos[p], @[p].lastKnownPosition)
       THEN [@[p] EXCEPT !.lastKnownRaceProgress = findClosestPointCurveProgress(pos[p]),
                         !.lastKnownRaceTime = s.matchTime,
                         !.lastKnownPosition = pos[p]]
       ELSE @[p]]]

\* racePosition with the comparator reversed (ascending progress)
racePosition_ascending(s, ord, p) ==
  LET rp == s.raceParticipants IN
  1 + Cardinality({q \in Players : rp[q].in /\
        (\/ rp[q].lastKnownRaceProgress < rp[p].lastKnownRaceProgress
         \/ (rp[q].lastKnownRaceProgress = rp[p].lastKnownRaceProgress /\ ord[q] < ord[p]))})

\* index + 1 of p in the participants sorted by descending progress; the sort
\* is stable, ord is the insertion order of the map
racePosition(s, ord, p) ==
  LET rp == s.raceParticipants IN
  1 + Cardinality({q \in Players : rp[q].in /\
        (\/ rp[q].lastKnownRaceProgress > rp[p].lastKnownRaceProgress
         \/ (rp[q].lastKnownRaceProgress = rp[p].lastKnownRaceProgress /\ ord[q] < ord[p]))})

\* the sampling callback that sorts the records before it updates them
raceUpdate_sortFirst(s, pos, ord) ==
  LET s1 == updateAllRacerCurveProgress(s, pos) IN
  [s1 EXCEPT !.sampled = TRUE,
             !.rankSent = [p \in Players |->
     IF s1.raceParticipants[p].in /\ ~s1.raceParticipants[p].won
       THEN racePosition(s, ord, p) ELSE 0],
             !.totalSent = [p \in Players |->
     IF s1.raceParticipants[p].in /\ ~s1.raceParticipants[p].won
       THEN Cardinality({q \in Players : s1.raceParticipants[q].in}) ELSE 0]]

\* the sampling callback without the test !raceWinners.has(entry)
raceUpdate_winnersToo(s, pos, ord) ==
  LET s1 == updateAllRacerCurveProgress(s, pos) IN
  [s1 EXCEPT !.sampled = TRUE,
             !.rankSent = [p \in Players |->
     IF s1.raceParticipants[p].in THEN racePosition(s1, ord, p) ELSE 0],
             !.totalSent = [p \in Players |->
     IF s1.raceParticipants[p].in
       THEN Cardinality({q \in Players : s1.raceParticipants[q].in}) ELSE 0]]

raceUpdate(s, pos, ord) ==
  LET s1 == updateAllRacerCurveProgress(s, pos) IN
  [s1 EXCEPT !.sampled = TRUE,
             !.rankSent = [p \in Players |->
     IF s1.raceParticipants[p].in /\ ~s1.raceParticipants[p].won
       THEN racePosition(s1, ord, p) ELSE 0],
             !.totalSent = [p \in Players |->
     IF s1.raceParticipants[p].in /\ ~s1.raceParticipants[p].won
       THEN Cardinality({q \in Players : s1.raceParticipants[q].in}) ELSE 0]]

\* the World.onUpdate handler without the test raceParticipants.size > 0
onUpdate_always(s, deltaTime) == [s EXCEPT !.matchTime = @ + deltaTime]

\* the World.onUpdate handler of RaceManager
onUpdate(s, deltaTime) ==
  IF \E p \in Players : s.raceParticipants[p].in
    THEN [s EXCEPT !.matchTime = @ + deltaTime]
    ELSE s

\* handleOnPlayerLeftMatch without this.raceWinners.delete(rp)
handleOnPlayerLeftMatch_keepsWinner(s, p) ==
  IF s.raceParticipants[p].in
    THEN [s EXCEPT !.raceParticipants[p] = NoParticipant]
    ELSE s

handleOnPlayerLeftMatch(s, p) ==
  IF s.raceParticipants[p].in
    THEN [s EXCEPT !.raceWinners = SelectSeq(@, LAMBDA w : ~(w.player = p /\ ~w.stale)),
                   !.raceParticipants[p] = NoParticipant]
    ELSE s

\* playerFinishedRace that puts the finisher at the head of the finish list
playerFinishedRace_atHead(s, p) ==
  IF s.raceParticipants[p].in /\ ~s.raceParticipants[p].won
    THEN LET s1 == [s EXCEPT !.stopSent[p] = @ + 1,
                             !.raceWinners = <<[player |-> p, time |-> s.matchTime, stale |-> FALSE]>> \o @,
                             !.raceParticipants[p] = [@ EXCEPT !.won = TRUE,
                                                               !.lastKnownRaceProgress = ProgressOne,
                                                               !.lastKnownRaceTime = s.matchTime]] IN
         handleUpdateRaceUI(s1, getWinnerRollCallString(s1.raceWinners))
    ELSE s

\* playerFinishedRace without the test !raceWinners.has(rp)
playerFinishedRace_again(s, p) ==
  IF s.raceParticipants[p].in
    THEN LET s1 == [s EXCEPT !.stopSent[p] = @ + 1,
                             !.raceWinners = Append(@, [player |-> p, time |-> s.matchTime, stale |-> FALSE]),
                             !.raceParticipants[p] = [@ EXCEPT !.won = TRUE,
                                                               !.lastKnownRaceProgress = ProgressOne,
                                                               !.lastKnownRaceTime = s.matchTime]] IN
         handleUpdateRaceUI(s1, getWinnerRollCallString(s1.raceWinners))
    ELSE s

playerFinishedRace(s, p) ==
  IF s.raceParticipants[p].in /\ ~s.raceParticipants[p].won
    THEN LET s1 == [s EXCEPT !.stopSent[p] = @ + 1,
                             !.raceWinners = Append(@, [player |-> p, time |-> s.matchTime, stale |-> FALSE]),
                             !.raceParticipants[p] = [@ EXCEPT !.won = TRUE,
                                                               !.lastKnownRaceProgress = ProgressOne,
                                                               !.lastKnownRaceTime = s.matchTime]] IN
         handleUpdateRaceUI(s1, getWinnerRollCallString(s1.raceWinners))
    ELSE s

RaceManager_onGameStateChanged(s, fromState, toState) ==
  IF fromState = EndingMatch /\ toState = CompletedMatch THEN handleOnMatchEnd(s)
  ELSE IF fromState = StartingMatch /\ toState = PlayingMatch THEN handleOnMatchStart(s)
  ELSE s

\* -------------------------------------------------------- GameManager
\* sendLocalBroadcastEvent(Events.onGameStateChanged, {fromState, toState}):
\* the subscribers run inside the call, in their order of registration
sendGameStateChanged(s, fromState, toState) ==
  LET s0 == [s EXCEPT !.bcast = Append(@, [fromState |-> fromState, toState |-> toState,
                                           held |-> s.currentGameState,
                                           startPending |-> s.startMatchTimer.live])] IN
  IF rosterFirst
    THEN RaceManager_onGameStateChanged(handleGameStateTransit(s0, fromState, toState), fromState, toState)
    ELSE handleGameStateTransit(RaceManager_onGameStateChanged(s0, fromState, toState), fromState, toState)

\* transitGameState without the test of fromState against the held phase
transitGameState_anyFrom(s, fromState, toState) ==
  IF fromState = toState THEN [s EXCEPT !.transited = "false"]
  ELSE [sendGameStateChanged([s EXCEPT !.currentGameState = toState], fromState, toState)
          EXCEPT !.transited = "true"]

transitGameState(s, fromState, toState) ==
  IF fromState = toState THEN [s EXCEPT !.transited = "false"]
  ELSE IF fromState # s.currentGameState THEN [s EXCEPT !.transited = "false"]
  ELSE [sendGameStateChanged([s EXCEPT !.currentGameState = toState], fromState, toState)
          EXCEPT !.transited = "true"]

\* reset that forgets to clear the start countdown
GameManager_reset_keepsStart(s) ==
  [s EXCEPT !.currentGameState = ReadyForMatch,
            !.endMatchTimer = NoTimer,
            !.newMatchTimer = NoTimer]

GameManager_reset(s) ==
  [s EXCEPT !.currentGameState = ReadyForMatch,
            !.startMatchTimer = NoTimer,
            !.endMatchTimer = NoTimer,
            !.newMatchTimer = NoTimer]

\* component.async.setInterval(..., 1000) with the closure's timerMS
newInterval(timerMS) == [live |-> TRUE, timerMS |-> timerMS, elapsedMS |-> 0]
lostIfLive(s, old) == IF old.live THEN s.overwrittenLive + 1 ELSE s.overwrittenLive

transitFromStartingToReady(s) ==
  LET s1 == transitGameState(s, StartingMatch, ReadyForMatch) IN
  IF s1.transited # "true" THEN s1 ELSE GameManager_reset(s1)

transitFromCompletedToReady(s) ==
  LET s1 == transitGameState(s, CompletedMatch, ReadyForMatch) IN
  IF s1.transited # "true" THEN s1 ELSE GameManager_reset(s1)

transitFromReadyToStarting(s) ==
  LET s1 == transitGameState(s, ReadyForMatch, StartingMatch) IN
  IF s1.transited # "true" THEN s1
  ELSE [s1 EXCEPT !.overwrittenLive = lostIfLive(s1, s1.startMatchTimer),
                  !.startMatchTimer = newInterval(timeToMatchStartMS)]

transitFromStartingToPlaying(s) == transitGameState(s, StartingMatch, PlayingMatch)

\* transitFromPlayingToEnding that starts the end countdown whatever transitGameState returned
transitFromPlayingToEnding_alwaysTimer(s) ==
  LET s1 == transitGameState(s, PlayingMatch, EndingMatch) IN
  [s1 EXCEPT !.overwrittenLive = lostIfLive(s1, s1.endMatchTimer),
             !.endMatchTimer = newInterval(timeToMatchEndMS)]

transitFromPlayingToEnding(s) ==
  LET s1 == transitGameState(s, PlayingMatch, EndingMatch) IN
  IF s1.transited # "true" THEN s1
  ELSE [s1 EXCEPT !.overwrittenLive = lostIfLive(s1, s1.endMatchTimer),
                  !.endMatchTimer = newInterval(timeToMatchEndMS)]

transitFromEndingToCompleted(s) ==
  LET s1 == transitGameState(s, EndingMatch, CompletedMatch) IN
  IF s1.transited # "true" THEN s1
  ELSE [s1 EXCEPT !.overwrittenLive = lostIfLive(s1, s1.newMatchTimer),
                  !.newMatchTimer = newInterval(timeNewMatchReadyMS)]

\* onPlayerJoinedStandby that starts the match without counting the standby players
onPlayerJoinedStandby_noCount(s) == transitFromReadyToStarting(s)

onPlayerJoinedStandby(s) ==
  IF Cardinality(getPlayersWithStatus(s, Standby)) >= playersNeededForMatch
    THEN transitFromReadyToStarting(s) ELSE s

onPlayerLeftStandby(s) ==
  IF Cardinality(getPlayersWithStatus(s, Standby)) < playersNeededForMatch
    THEN (IF s.currentGameState = StartingMatch THEN transitFromStartingToReady(s) ELSE s)
    ELSE s

GameManager_onPlayerExitWorld(s) ==
  LET s1 == IF s.present = {}
              THEN [s EXCEPT !.resetMM = @ + 1, !.resetRM = @ + 1,
                             !.resetsRaised = IF asyncReset THEN @ + 1 ELSE @]
              ELSE s IN
  GameManager_reset(s1)

GameManager_onPlayerReachedGoal(s) == transitFromPlayingToEnding(s)

\* one callback of the interval set by timedIntervalActionFunction: t is the
\* interval, after(s) the state once onEndAction has run
intervalTick(t) == [t EXCEPT !.timerMS = @ - TickMS, !.elapsedMS = @ + TickMS]

\* ------------------------------------- MatchManager handlers that broadcast
\* sendLocalBroadcastEvent of one of the roster's own events
sendSignal(s, event, p) == [s EXCEPT !.signals = Append(@, [event |-> event, player |-> p])]

\* handleOnPlayerExitWorld that tells nobody that a player in the match has left
handleOnPlayerExitWorld_standbyOnly(s, p) ==
  IF s.playerMap[p] = NoEntry THEN s
  ELSE LET status == s.playerMap[p]
           s1 == [s EXCEPT !.playerMap[p] = NoEntry] IN
       IF status = Standby
         THEN onPlayerLeftStandby(sendSignal(s1, "onPlayerLeftStandby", p))
       ELSE s1

handleOnPlayerExitWorld(s, p) ==
  IF s.playerMap[p] = NoEntry THEN s
  ELSE LET status == s.playerMap[p]
           s1 == [s EXCEPT !.playerMap[p] = NoEntry] IN
       IF status = Standby
         THEN onPlayerLeftStandby(sendSignal(s1, "onPlayerLeftStandby", p))
       ELSE IF status = Playing
         THEN handleOnPlayerLeftMatch(sendSignal(s1, "onPlayerLeftMatch", p), p)
       ELSE s1

handleOnPlayerEnterWorld(s, p) == [s EXCEPT !.playerMap[p] = Lobby]

handlePlayerRegisterStandby(s, p) ==
  IF s.lastKnownGameState = StartingMatch \/ s.lastKnownGameState = ReadyForMatch
    THEN onPlayerJoinedStandby(
           sendSignal(transferPlayerWithStatus(s, p, Lobby, Standby), "onPlayerJoinedStandby", p))
    ELSE s

handlePlayerDeregisterStandby(s, p) ==
  IF s.lastKnownGameState = StartingMatch \/ s.lastKnownGameState = ReadyForMatch
    THEN transferPlayerWithStatus(s, p, Standby, Lobby)
    ELSE s

\* ------------------------------------------------------------ actions
Init ==
  /\ present = {}
  /\ currentGameState = ReadyForMatch
  /\ startMatchTimer = NoTimer
  /\ endMatchTimer = NoTimer
  /\ newMatchTimer = NoTimer
  /\ overwrittenLive = 0
  /\ lastKnownGameState = ReadyForMatch
  /\ playerMap = [p \in Players |-> NoEntry]
  /\ raceParticipants = [p \in Players |-> NoParticipant]
  /\ raceWinners = <<>>
  /\ matchTime = 0
  /\ raceUpdateInterval = FALSE
  /\ orphanIntervals = 0
  /\ resetMM = 0
  /\ resetRM = 0
  /\ playersNeededForMatch \in 1..MaxNeeded
  /\ rosterFirst \in BOOLEAN
  /\ gmExitFirst \in BOOLEAN
  /\ universe = MainPlayers
  /\ asyncReset = FALSE
  /\ resetsRaised = 0
  /\ bcast = <<>>
  /\ transited = "none"
  /\ request = NoRequest
  /\ rankSent = NoRanks
  /\ totalSent = NoRanks
  /\ stopSent = NoRanks
  /\ signals = <<>>
  /\ uiText = <<>>
  /\ sampled = FALSE
  /\ countdown = NoCountdown
  /\ raceCurve = DefaultTrack
  /\ curveCall = NoCall

\* the loopback delivery of onResetWorld precedes the next event unless asyncReset
Quiet == asyncReset \/ (resetMM = 0 /\ resetRM = 0)

\* CodeBlockEvents.OnPlayerEnterWorld
PlayerEnter(p) ==
  /\ Quiet
  /\ p \in universe \ present
  /\ Commit(handleOnPlayerEnterWorld([Cur EXCEPT !.present = @ \cup {p}], p))

\* CodeBlockEvents.OnPlayerExitWorld, handled by GameManager and MatchManager
PlayerExit(p) ==
  /\ Quiet
  /\ p \in present
  /\ present = {p} => (resetMM < MaxInFlight /\ resetRM < MaxInFlight /\ resetsRaised < MaxResets)
  /\ LET s0 == [Cur EXCEPT !.present = @ \ {p}] IN
     Commit(IF gmExitFirst
              THEN handleOnPlayerExitWorld(GameManager_onPlayerExitWorld(s0), p)
              ELSE GameManager_onPlayerExitWorld(handleOnPlayerExitWorld(s0, p)))

\* Events.onRegisterPlayerForMatch (PlayerRegisterMatchTrigger.onPlayerEnterTrigger)
QueueRequest(p) ==
  /\ Quiet
  /\ p \in present
  /\ Commit(handlePlayerRegisterStandby(Cur, p))

\* Events.onDeregisterPlayerForMatch (PlayerRegisterMatchTrigger.onPlayerExitTrigger)
DequeueRequest(p) ==
  /\ Quiet
  /\ p \in present
  /\ Commit(handlePlayerDeregisterStandby(Cur, p))

\* Events.onPlayerReachedGoal (PlayerVictoryTrigger.onPlayerEnterTrigger),
\* handled by GameManager and RaceManager, which do not interfere
GoalReached(p) ==
  /\ Quiet
  /\ p \in present
  /\ Commit(playerFinishedRace(GameManager_onPlayerReachedGoal(Cur), p))

\* the callback of the start countdown with the test timerMS >= 0
startCountdownCallback_atZero(s) ==
  IF s.startMatchTimer.timerMS >= 0
    THEN [s EXCEPT !.countdown = [event |-> "onGameStartTimeLeft",
                                  timeLeftMS |-> s.startMatchTimer.timerMS],
                   !.startMatchTimer = intervalTick(@)]
    ELSE [transitFromStartingToPlaying(s) EXCEPT !.startMatchTimer = NoTimer]

\* the callback of the interval set in transitFromReadyToStarting: its tick
\* action broadcasts onGameStartTimeLeft, its end action is
\* transitFromStartingToPlaying
startCountdownCallback(s) ==
  IF s.startMatchTimer.timerMS > 0
    THEN [s EXCEPT !.countdown = [event |-> "onGameStartTimeLeft",
                                  timeLeftMS |-> s.startMatchTimer.timerMS],
                   !.startMatchTimer = intervalTick(@)]
    ELSE [transitFromStartingToPlaying(s) EXCEPT !.startMatchTimer = NoTimer]

\* the callback of the interval set in transitFromPlayingToEnding: its tick
\* action broadcasts onGameEndTimeLeft, its end action is
\* transitFromEndingToCompleted
endCountdownCallback(s) ==
  IF s.endMatchTimer.timerMS > 0
    THEN [s EXCEPT !.countdown = [event |-> "onGameEndTimeLeft",
                                  timeLeftMS |-> s.endMatchTimer.timerMS],
                   !.endMatchTimer = intervalTick(@)]
    ELSE [transitFromEndingToCompleted(s) EXCEPT !.endMatchTimer = NoTimer]

\* one callback of the start countdown
StartTimerTick ==
  /\ Quiet
  /\ startMatchTimer.live
  /\ Commit(startCountdownCallback(Cur))

\* one callback of the end countdown
EndTimerTick ==
  /\ Quiet
  /\ endMatchTimer.live
  /\ Commit(endCountdownCallback(Cur))

\* one callback of the new-match countdown
NewTimerTick ==
  /\ Quiet
  /\ newMatchTimer.live
  /\ IF newMatchTimer.timerMS > 0
       THEN Commit([Cur EXCEPT !.newMatchTimer = intervalTick(@)])
       ELSE Commit([transitFromCompletedToReady(Cur) EXCEPT !.newMatchTimer = NoTimer])

Orders == {f \in [Players -> 1..Cardinality(Players)] : \A p, q \in Players : p # q => f[p] # f[q]}

\* one callback of the 500 ms sampling interval; pos are the players'
\* positions, at whole metres
SamplingTick ==
  /\ Quiet
  /\ raceUpdateInterval \/ orphanIntervals > 0
  /\ \E pos \in [Players -> {Metre * k : k \in 0..MaxPos}], ord \in Orders :
       /\ \A p \in Players : (~raceParticipants[p].in \/ raceParticipants[p].won) => pos[p] = 0
       /\ Commit(raceUpdate(Cur, pos, ord))

\* World.onUpdate with a frame delta time, while the clock is below cap
FrameUpdateTo(dt, cap) ==
  /\ Quiet
  /\ matchTime + dt <= cap
  /\ Commit(onUpdate(Cur, dt))

FrameUpdate(dt) == FrameUpdateTo(dt, MaxClock)

\* delivery of Events.onResetWorld to MatchManager
DeliverResetMM ==
  /\ resetMM > 0
  /\ Commit(MatchManager_reset([Cur EXCEPT !.resetMM = @ - 1]))

\* delivery of Events.onResetWorld to RaceManager
DeliverResetRM ==
  /\ resetRM > 0
  /\ Commit(RaceManager_reset([Cur EXCEPT !.resetRM = @ - 1]))

Next ==
  \/ \E p \in Players : PlayerEnter(p)
  \/ \E p \in Players : PlayerExit(p)
  \/ \E p \in Players : QueueRequest(p)
  \/ \E p \in Players : DequeueRequest(p)
  \/ \E p \in Players : GoalReached(p)
  \/ StartTimerTick
  \/ EndTimerTick
  \/ NewTimerTick
  \/ SamplingTick
  \/ \E dt \in 1..MaxDelta : FrameUpdate(dt)
  \/ DeliverResetMM
  \/ DeliverResetRM

Spec == Init /\ [][Next]_vars

\* ---------------------------------------- the end-to-end scenario of the spec
\* three participants, minimum players 1, nobody leaves
InitE2E ==
  /\ present = {}
  /\ currentGameState = ReadyForMatch
  /\ startMatchTimer = NoTimer
  /\ endMatchTimer = NoTimer
  /\ newMatchTimer = NoTimer
  /\ overwrittenLive = 0
  /\ lastKnownGameState = ReadyForMatch
  /\ playerMap = [p \in Players |-> NoEntry]
  /\ raceParticipants = [p \in Players |-> NoParticipant]
  /\ raceWinners = <<>>
  /\ matchTime = 0
  /\ raceUpdateInterval = FALSE
  /\ orphanIntervals = 0
  /\ resetMM = 0
  /\ resetRM = 0
  /\ playersNeededForMatch = 1
  /\ rosterFirst \in BOOLEAN
  /\ gmExitFirst \in BOOLEAN
  /\ universe = Players
  /\ asyncReset = FALSE
  /\ resetsRaised = 0
  /\ bcast = <<>>
  /\ transited = "none"
  /\ request = NoRequest
  /\ rankSent = NoRanks
  /\ totalSent = NoRanks
  /\ stopSent = NoRanks
  /\ signals = <<>>
  /\ uiText = <<>>
  /\ sampled = FALSE
  /\ countdown = NoCountdown
  /\ raceCurve = DefaultTrack
  /\ curveCall = NoCall

NextE2E ==
  \/ \E p \in Players : PlayerEnter(p)
  \/ \E p \in Players : QueueRequest(p)
  \/ \E p \in Players : GoalReached(p)
  \/ StartTimerTick
  \/ EndTimerTick
  \/ NewTimerTick
  \/ SamplingTick
  \/ \E dt \in 1..MaxDelta : FrameUpdate(dt)

SpecE2E == InitE2E /\ [][NextE2E]_vars

\* --------------------------------- transitGameState called with any (from, to)
RequestTransition(fromState, toState) ==
  LET s == [transitGameState(Cur, fromState, toState) EXCEPT !.request = <<fromState, toState>>] IN
  /\ s.orphanIntervals <= MaxOrphans
  /\ Commit(s)

NextTransit ==
  \/ \E p \in Players : PlayerEnter(p)
  \/ \E fromState, toState \in GameState : RequestTransition(fromState, toState)

SpecTransit == Init /\ [][NextTransit]_vars

\* ------------------- onResetWorld delivered late: other events may overtake it
InitAsync ==
  /\ present = {}
  /\ currentGameState = ReadyForMatch
  /\ startMatchTimer = NoTimer
  /\ endMatchTimer = NoTimer
  /\ newMatchTimer = NoTimer
  /\ overwrittenLive = 0
  /\ lastKnownGameState = ReadyForMatch
  /\ playerMap = [p \in Players |-> NoEntry]
  /\ raceParticipants = [p \in Players |-> NoParticipant]
  /\ raceWinners = <<>>
  /\ matchTime = 0
  /\ raceUpdateInterval = FALSE
  /\ orphanIntervals = 0
  /\ resetMM = 0
  /\ resetRM = 0
  /\ playersNeededForMatch \in 1..MaxNeeded
  /\ rosterFirst \in BOOLEAN
  /\ gmExitFirst \in BOOLEAN
  /\ universe = MainPlayers
  /\ asyncReset = TRUE
  /\ resetsRaised = 0
  /\ bcast = <<>>
  /\ transited = "none"
  /\ request = NoRequest
  /\ rankSent = NoRanks
  /\ totalSent = NoRanks
  /\ stopSent = NoRanks
  /\ signals = <<>>
  /\ uiText = <<>>
  /\ sampled = FALSE
  /\ countdown = NoCountdown
  /\ raceCurve = DefaultTrack
  /\ curveCall = NoCall

NextAsync ==
  \/ \E p \in Players : PlayerEnter(p)
  \/ \E p \in Players : PlayerExit(p)
  \/ \E p \in Players : QueueRequest(p)
  \/ \E p \in Players : DequeueRequest(p)
  \/ \E p \in Players : GoalReached(p)
  \/ StartTimerTick
  \/ EndTimerTick
  \/ NewTimerTick
  \/ DeliverResetMM
  \/ DeliverResetRM

SpecAsync == InitAsync /\ [][NextAsync]_vars

\* ------------- a race of three in which players may leave; ranks are not sampled
InitRace ==
  /\ present = {}
  /\ currentGameState = ReadyForMatch
  /\ startMatchTimer = NoTimer
  /\ endMatchTimer = NoTimer
  /\ newMatchTimer = NoTimer
  /\ overwrittenLive = 0
  /\ lastKnownGameState = ReadyForMatch
  /\ playerMap = [p \in Players |-> NoEntry]
  /\ raceParticipants = [p \in Players |-> NoParticipant]
  /\ raceWinners = <<>>
  /\ matchTime = 0
  /\ raceUpdateInterval = FALSE
  /\ orphanIntervals = 0
  /\ resetMM = 0
  /\ resetRM = 0
  /\ playersNeededForMatch = 1
  /\ rosterFirst \in BOOLEAN
  /\ gmExitFirst \in BOOLEAN
  /\ universe = Players
  /\ asyncReset = FALSE
  /\ resetsRaised = 0
  /\ bcast = <<>>
  /\ transited = "none"
  /\ request = NoRequest
  /\ rankSent = NoRanks
  /\ totalSent = NoRanks
  /\ stopSent = NoRanks
  /\ signals = <<>>
  /\ uiText = <<>>
  /\ sampled = FALSE
  /\ countdown = NoCountdown
  /\ raceCurve = DefaultTrack
  /\ curveCall = NoCall

NextRace ==
  \/ \E p \in Players : PlayerEnter(p)
  \/ \E p \in Players : PlayerExit(p)
  \/ \E p \in Players : QueueRequest(p)
  \/ \E p \in Players : GoalReached(p)
  \/ StartTimerTick
  \/ EndTimerTick
  \/ NewTimerTick
  \/ \E dt \in 1..MaxDelta : FrameUpdate(dt)
  \/ DeliverResetMM
  \/ DeliverResetRM

SpecRace == InitRace /\ [][NextRace]_vars

\* ---------------- the roll-call of a match end, for up to MaxRacers records
\* the records are numbered in finish order: 1..finished are in raceWinners,
\* the next ones are registered and have not finished
InitRollCall ==
  /\ present = {}
  /\ currentGameState = EndingMatch
  /\ startMatchTimer = NoTimer
  /\ endMatchTimer = newInterval(timeToMatchEndMS)
  /\ newMatchTimer = NoTimer
  /\ overwrittenLive = 0
  /\ lastKnownGameState = EndingMatch
  /\ playerMap = [p \in Players |-> NoEntry]
  /\ \E finished \in 0..MaxRacers, firstTime \in 0..MaxClock :
       \E unfinished \in 0..(MaxRacers - finished) :
         /\ raceWinners = [i \in 1..finished |->
                             [player |-> i, time |-> firstTime + i, stale |-> FALSE]]
         /\ raceParticipants = [r \in 1..(finished + unfinished) |->
              IF r <= finished
                THEN [in |-> TRUE, lastKnownRaceTime |-> firstTime + r,
                      lastKnownRaceProgress |-> ProgressOne, lastKnownPosition |-> 0,
                      won |-> TRUE]
                ELSE [in |-> TRUE, lastKnownRaceTime |-> firstTime,
                      lastKnownRaceProgress |-> 0, lastKnownPosition |-> 0,
                      won |-> FALSE]]
         /\ matchTime = firstTime + finished
  /\ raceUpdateInterval = TRUE
  /\ orphanIntervals = 0
  /\ resetMM = 0
  /\ resetRM = 0
  /\ playersNeededForMatch = 1
  /\ rosterFirst = TRUE
  /\ gmExitFirst = TRUE
  /\ universe = {}
  /\ asyncReset = FALSE
  /\ resetsRaised = 0
  /\ bcast = <<>>
  /\ transited = "none"
  /\ request = NoRequest
  /\ rankSent = NoRanks
  /\ totalSent = NoRanks
  /\ stopSent = NoRanks
  /\ signals = <<>>
  /\ uiText = <<>>
  /\ sampled = FALSE
  /\ countdown = NoCountdown
  /\ raceCurve = DefaultTrack
  /\ curveCall = NoCall

\* the text computed by handleOnMatchEnd is put on the race UI
RollCallAtMatchEnd ==
  /\ uiText = <<>>
  /\ Commit(handleUpdateRaceUI(Cur, rollCallAtMatchEnd(raceWinners, raceParticipants)))

NextRollCall == RollCallAtMatchEnd

SpecRollCall == InitRollCall /\ [][NextRollCall]_vars

\* ------------------------------------------------------------- claims
PermittedEdges ==
  {<<ReadyForMatch, StartingMatch>>, <<StartingMatch, PlayingMatch>>,
   <<PlayingMatch, EndingMatch>>, <<EndingMatch, CompletedMatch>>,
   <<CompletedMatch, ReadyForMatch>>, <<StartingMatch, ReadyForMatch>>}

StandbyCount == Cardinality({p \in Players : playerMap[p] = Standby})
Changed(fromState, toState) == [fromState |-> fromState, toState |-> toState]
Announced == [i \in 1..Len(bcast) |-> Changed(bcast[i].fromState, bcast[i].toState)]
PhaseTimers == <<startMatchTimer, endMatchTimer, newMatchTimer>>

\* one step of C1
C1_Step ==
  request' # NoRequest =>
    IF request'[1] # currentGameState \/ request'[1] = request'[2]
      THEN /\ transited' = "false"
           /\ currentGameState' = currentGameState
           /\ bcast' = <<>>
           /\ UNCHANGED <<lastKnownGameState, playerMap, PhaseTimers>>
      ELSE /\ transited' = "true"
           /\ currentGameState' = request'[2]

\* C1: a transition request whose from is not the held phase, or whose from
\* equals its to, returns false, leaves the held phase alone and broadcasts
\* nothing; a request from the held phase to another one still succeeds.
C1_InvalidRequestRejected == [][C1_Step]_vars

C1_Witness ==
  /\ request # NoRequest
  /\ transited = "false"
  /\ request[1] # request[2]
  /\ currentGameState = PlayingMatch

\* one step of C2
C2_Step ==
  currentGameState' # currentGameState =>
    \/ <<currentGameState, currentGameState'>> \in PermittedEdges
    \/ (currentGameState' = ReadyForMatch /\ present' = {} /\ present # {})

\* C2: every change of the held phase follows one of the six permitted edges,
\* except a forced return to ReadyForMatch when the last player has left.
C2_OnlyPermittedEdges == [][C2_Step]_vars

\* one step of C3
C3_Step ==
  /\ currentGameState' # currentGameState =>
       Announced' = <<Changed(currentGameState, currentGameState')>>
  /\ currentGameState' = currentGameState => bcast' = <<>>
  /\ \A i \in 1..Len(bcast') : bcast'[i].held = bcast'[i].toState

\* C3: every change of the held phase is broadcast exactly once as
\* onGameStateChanged{old, new}, the held phase being the new one at delivery,
\* and there is no broadcast without a change.
C3_EveryChangeBroadcastOnce == [][C3_Step]_vars

\* one step of C4
C4_Step ==
  /\ (currentGameState = ReadyForMatch /\ \E p \in Players : QueueRequest(p))
       => currentGameState' = StartingMatch
  /\ (currentGameState = StartingMatch /\ currentGameState' = PlayingMatch /\ present = Players)
       => \A p \in Players : playerMap'[p] = Playing /\ raceParticipants'[p].in
  /\ (currentGameState = PlayingMatch /\ SamplingTick /\ \A p \in Players : playerMap[p] = Playing)
       => \A p \in Players : raceParticipants'[p].won \/ rankSent'[p] > 0
  /\ (currentGameState = PlayingMatch /\ \E p \in Players : GoalReached(p))
       => currentGameState' = EndingMatch
  /\ (currentGameState = CompletedMatch /\ currentGameState' # CompletedMatch)
       => /\ currentGameState' = ReadyForMatch
          /\ NewTimerTick
          /\ raceParticipants' = [p \in Players |-> NoParticipant]
          /\ raceWinners' = <<>>
          /\ matchTime' = 0
          /\ \A p \in present : playerMap'[p] = Lobby

\* C4: the end-to-end scenario.  With minimum players 1 a queue request in
\* ReadyForMatch starts the countdown; when the countdown ends with all three
\* present they are all Active and all Participants; each of them that has not
\* finished gets a rank on every sampling tick; a goal in PlayingMatch leads to
\* EndingMatch; and when ReadyForMatch is reached again the Participant set,
\* the finish list and the clock are cleared and every roster entry is Lobby.
C4_EndToEnd == [][C4_Step]_vars

\* C5: the pending countdowns are determined by the held phase: the start
\* countdown exactly in StartingMatch, the end countdown exactly in
\* EndingMatch, the new-match countdown exactly in CompletedMatch.
C5_TimersMatchPhase ==
  /\ overwrittenLive = 0
  /\ startMatchTimer.live <=> currentGameState = StartingMatch
  /\ endMatchTimer.live <=> currentGameState = EndingMatch
  /\ newMatchTimer.live <=> currentGameState = CompletedMatch

C5_Witness ==
  /\ currentGameState = ReadyForMatch
  /\ Announced = <<Changed(StartingMatch, ReadyForMatch)>>
  /\ ~startMatchTimer.live

\* C6: when StartingMatch -> ReadyForMatch is broadcast the start countdown is
\* no longer pending.
C6_StartTimerCancelledFirst ==
  \A i \in 1..Len(bcast) :
    (bcast[i].fromState = StartingMatch /\ bcast[i].toState = ReadyForMatch)
      => ~bcast[i].startPending

\* one step of C7
C7_Step ==
  /\ (currentGameState = StartingMatch /\ currentGameState' = PlayingMatch)
       => startMatchTimer.elapsedMS + TickMS = timeToMatchStartMS
  /\ (currentGameState = EndingMatch /\ currentGameState' = CompletedMatch)
       => endMatchTimer.elapsedMS + TickMS = timeToMatchEndMS
  /\ (currentGameState = CompletedMatch /\ currentGameState' = ReadyForMatch /\ NewTimerTick)
       => newMatchTimer.elapsedMS + TickMS = timeNewMatchReadyMS

\* C7: a timed transition is committed when the configured delay has elapsed
\* since the countdown was started, not one tick later.
C7_CommitAtExpiry == [][C7_Step]_vars

\* one step of C8
C8_Step ==
  \A p \in Players :
    (/\ PlayerExit(p)
     /\ currentGameState = StartingMatch
     /\ playerMap[p] = Standby
     /\ StandbyCount' < playersNeededForMatch)
    => /\ currentGameState' = ReadyForMatch
       /\ Announced' = <<Changed(StartingMatch, ReadyForMatch)>>
       /\ ~startMatchTimer'.live

\* C8: in StartingMatch, when a queued participant leaves and the queued count
\* thereby falls below the minimum, StartingMatch -> ReadyForMatch is committed
\* and broadcast and the start countdown is cancelled.
C8_AbortOnLeave == [][C8_Step]_vars

\* one step of C9
C9_Step ==
  /\ (\E i \in 1..Len(bcast') : Announced'[i] = Changed(ReadyForMatch, StartingMatch))
       <=> (/\ \E p \in Players : QueueRequest(p)
            /\ lastKnownGameState \in {ReadyForMatch, StartingMatch}
            /\ currentGameState = ReadyForMatch
            /\ StandbyCount' >= playersNeededForMatch)
  /\ (currentGameState # StartingMatch /\ currentGameState' = StartingMatch)
       => (currentGameState = ReadyForMatch /\ StandbyCount' >= playersNeededForMatch)

\* C9: ReadyForMatch -> StartingMatch is committed exactly when a queue request
\* is accepted while the held phase is ReadyForMatch and the queued count is
\* then at least the minimum; StartingMatch is never entered with fewer queued.
C9_StartExactlyOnEnoughQueued == [][C9_Step]_vars

C9_Witness ==
  /\ currentGameState = StartingMatch
  /\ Announced = <<Changed(ReadyForMatch, StartingMatch)>>
  /\ playersNeededForMatch = 2
  /\ StandbyCount = 2

\* one step of C10
C10_Step ==
  /\ \A p \in Players : GoalReached(p) =>
       IF currentGameState = PlayingMatch
         THEN /\ currentGameState' = EndingMatch
              /\ endMatchTimer' = newInterval(timeToMatchEndMS)
              /\ UNCHANGED <<startMatchTimer, newMatchTimer>>
         ELSE UNCHANGED <<currentGameState, PhaseTimers>>
  /\ (currentGameState = PlayingMatch /\ currentGameState' # PlayingMatch)
       => \/ (currentGameState' = EndingMatch /\ \E p \in Players : GoalReached(p))
          \/ (currentGameState' = ReadyForMatch /\ \E p \in Players : PlayerExit(p))

\* C10: a goal in PlayingMatch commits PlayingMatch -> EndingMatch and starts
\* the end countdown; a goal in any other phase changes neither the phase nor
\* a countdown; PlayingMatch is left only by a goal or by a reset.
C10_GoalEndsPlaying == [][C10_Step]_vars

C10_Witness ==
  /\ currentGameState = EndingMatch
  /\ endMatchTimer.live
  /\ endMatchTimer.elapsedMS > 0
  /\ \E p \in Players : raceParticipants[p].won
  /\ bcast = <<>>
  /\ transited = "false"

\* one step of C11
C11_Step ==
  \A p \in Players :
    (GoalReached(p) /\ ~raceParticipants[p].in)
      => /\ UNCHANGED <<raceParticipants, raceWinners, currentGameState>>
         /\ uiText' = <<>>
         /\ stopSent' = NoRanks

\* C11: a goal-reached signal for an identity that is not a race participant
\* is ignored: the participants, the finish list and the held phase stay as
\* they are and no roll-call is displayed.
C11_FinishOfNonParticipantIgnored == [][C11_Step]_vars

\* one step of C12
C12_Step ==
  \A p \in Players :
    /\ ((QueueRequest(p) \/ DequeueRequest(p))
          /\ currentGameState \in {PlayingMatch, EndingMatch, CompletedMatch})
         => (playerMap' = playerMap /\ signals' = <<>> /\ bcast' = <<>>)
    /\ (QueueRequest(p) /\ currentGameState \in {ReadyForMatch, StartingMatch}
          /\ playerMap[p] = Lobby)
         => playerMap'[p] = Standby
    /\ (DequeueRequest(p) /\ currentGameState \in {ReadyForMatch, StartingMatch}
          /\ playerMap[p] = Standby)
         => playerMap'[p] = Lobby

\* C12: a queue or dequeue request in PlayingMatch, EndingMatch or
\* CompletedMatch changes no roster entry and emits no event; in ReadyForMatch
\* or StartingMatch a queue request moves a Lobby entry to Standby and a
\* dequeue request moves a Standby entry to Lobby.
C12_QueueOnlyBeforeMatch == [][C12_Step]_vars

\* one step of C13
C13_Step ==
  /\ Len(bcast') <= 1
  /\ IF Announced' = <<Changed(StartingMatch, PlayingMatch)>>
       THEN playerMap' = [p \in Players |->
              IF playerMap[p] \in {Lobby, Standby} THEN Playing ELSE playerMap[p]]
     ELSE IF Len(bcast') = 1 /\ bcast'[1].toState = CompletedMatch
       THEN playerMap' = [p \in Players |->
              IF playerMap[p] = NoEntry THEN NoEntry ELSE Lobby]
     ELSE (bcast' # <<>> \/ currentGameState' # currentGameState)
       => \A q \in Players :
            \/ playerMap'[q] = playerMap[q]
            \/ (QueueRequest(q) /\ playerMap'[q] = Standby)
            \/ (PlayerExit(q) /\ playerMap'[q] = NoEntry)

C14_Step ==
  /\ \A p \in Players : p \in present' <=> playerMap'[p] # NoEntry
  /\ \A p \in Players : PlayerEnter(p) => playerMap'[p] = Lobby

\* C14: after every event, world resets delivered late included, the roster
\* has an entry exactly for the players present in the world, and the entry
\* of a player that has just entered is Lobby.
C14_OneEntryPerPresent == [][C14_Step]_vars

\* one step of C15
C15_Step ==
  \A p \in Players : PlayerExit(p) =>
    /\ playerMap' = [playerMap EXCEPT ![p] = NoEntry]
    /\ signals' = IF playerMap[p] = Standby
                    THEN <<[event |-> "onPlayerLeftStandby", player |-> p]>>
                  ELSE IF playerMap[p] = Playing
                    THEN <<[event |-> "onPlayerLeftMatch", player |-> p]>>
                  ELSE <<>>

\* C15: when a player leaves the world its roster entry is deleted and no
\* other entry changes; onPlayerLeftStandby is broadcast exactly when its
\* status was Standby, onPlayerLeftMatch exactly when it was Playing, nothing
\* when it was Lobby; for a player without an entry the roster stays as it is
\* and nothing is broadcast.
C15_LeaveSignals == [][C15_Step]_vars

C15_Witness ==
  /\ signals = <<[event |-> "onPlayerLeftMatch", player |-> "A"]>>
  /\ playerMap["A"] = NoEntry
  /\ playerMap["B"] = Playing
  /\ ~raceParticipants["A"].in

\* one step of C16
C16_Step ==
  (currentGameState # PlayingMatch /\ currentGameState' = PlayingMatch) =>
    /\ \A p \in Players : playerMap'[p] = Playing <=> playerMap[p] \in PlayerGameStatus
    /\ \A p \in Players : raceParticipants'[p].in <=> playerMap'[p] = Playing
    /\ \A p \in Players : raceParticipants'[p].in => raceParticipants'[p] = NewParticipant
    /\ matchTime' = 0

\* C16: when PlayingMatch is entered the race participants are exactly the
\* players whose roster status is Playing after the bulk transfer of that
\* transition (every player that had an entry), each with progress 0 and race
\* time 0, and the match clock is 0, whichever of MatchManager and RaceManager
\* handles onGameStateChanged first.
C16_SnapshotAfterTransfer == [][C16_Step]_vars

\* one step of C17
C17_Step ==
  /\ \A p, q \in Players :
       (/\ rankSent'[p] > 0
        /\ rankSent'[q] > 0
        /\ raceParticipants'[p].lastKnownRaceProgress > raceParticipants'[q].lastKnownRaceProgress)
       => rankSent'[p] < rankSent'[q]
  /\ \A p, q \in Players :
       (p # q /\ rankSent'[p] > 0 /\ rankSent'[q] > 0) => rankSent'[p] # rankSent'[q]
  /\ sampled' =>
       \A p \in Players :
         (raceParticipants'[p].in /\ ~raceParticipants'[p].won) => rankSent'[p] >= 1

\* C17: on every sampling tick, of two unfinished participants with different
\* progress the one with the higher progress is sent the smaller playerPos;
\* the playerPos values sent in one tick are at least 1 and pairwise distinct.
C17_RankFollowsProgress == [][C17_Step]_vars

C17_Witness ==
  /\ rankSent["B"] = 1
  /\ rankSent["A"] = 2
  /\ raceParticipants["B"].lastKnownRaceProgress > raceParticipants["A"].lastKnownRaceProgress
  /\ ~raceParticipants["B"].won

\* one step of C18
C18_Step ==
  /\ sampled' =>
       \A p \in Players :
         rankSent'[p] > 0 <=> (raceParticipants[p].in /\ ~raceParticipants[p].won)
  /\ \A p \in Players :
       /\ rankSent'[p] > 0 => (sampled' /\ p \in present')
       /\ (~raceParticipants[p].won /\ raceParticipants'[p].won) => stopSent'[p] = 1
       /\ (raceParticipants[p].won /\ raceParticipants'[p].in) => raceParticipants'[p].won
       /\ PlayerExit(p) => ~raceParticipants'[p].in
       /\ (~raceParticipants[p].in /\ raceParticipants'[p].in)
            => (currentGameState = StartingMatch /\ currentGameState' = PlayingMatch)

\* C18: a sampling tick sends onRacePosUpdate to exactly the participants
\* that have not finished.  A participant that finishes is sent
\* onStopRacePosUpdates and stays finished while it is a participant; one that
\* leaves the world is removed; nobody becomes a participant except at the
\* start of a race: so neither is sent onRacePosUpdate again in that race.
C18_RankOnlyToUnfinished == [][C18_Step]_vars

C18_Witness ==
  /\ raceParticipants["A"].won
  /\ rankSent["A"] = 0
  /\ raceParticipants["B"].in
  /\ rankSent["B"] > 0
  /\ currentGameState = EndingMatch

\* the participants that have neither finished nor been removed
Unfinished(rp) == {p \in Players : rp[p].in /\ ~rp[p].won}

\* one step of C19
C19_Step ==
  \A p \in Players : rankSent'[p] > 0 =>
    /\ totalSent'[p] = Cardinality(Unfinished(raceParticipants'))
    /\ rankSent'[p] <= Cardinality(Unfinished(raceParticipants'))
    /\ rankSent'[p] = 1 + Cardinality({q \in Unfinished(raceParticipants') :
                            rankSent'[q] < rankSent'[p]})

\* C19: in every onRacePosUpdate, playerPos is the 1-based index of the
\* player among the unfinished participants in descending order of progress,
\* and totalRacers is the number of unfinished participants; finished
\* participants are counted in neither.
C19_RankAmongUnfinished == [][C19_Step]_vars

\* one step of C20
C20_Step ==
  \A p \in Players :
    stopSent'[p] =
      IF raceParticipants[p].in /\ ~raceParticipants[p].won /\ raceParticipants'[p].won
        THEN 1
      ELSE IF raceParticipants[p].in /\ ~raceParticipants[p].won
                /\ raceUpdateInterval /\ ~raceUpdateInterval'
        THEN 1
      ELSE 0

\* C20: onStopRacePosUpdates is sent to a participant once when it finishes,
\* and once when tracking stops if it is still a participant and has not
\* finished; it is sent at no other moment, in particular not at tracking stop
\* to a participant that has finished.
C20_StopSentOnce == [][C20_Step]_vars

\* one step of C21
C21_Step ==
  \A p \in Players :
    (GoalReached(p) /\ raceParticipants[p].in /\ raceParticipants[p].won)
      => /\ raceParticipants' = raceParticipants
         /\ raceWinners' = raceWinners
         /\ stopSent' = NoRanks
         /\ uiText' = <<>>

\* C21: a second onPlayerReachedGoal for a participant that has already
\* finished, at whatever later clock value, leaves its progress, its race time
\* and the finish list as they are and sends neither onStopRacePosUpdates nor
\* a new roll-call.
C21_FinishIdempotent == [][C21_Step]_vars

C21_Witness ==
  /\ raceParticipants["A"].won
  /\ matchTime > raceParticipants["A"].lastKnownRaceTime
  /\ Len(raceWinners) = 1
  /\ transited = "false"
  /\ uiText = <<>>
  /\ ~sampled

\* one step of C22
C22_Step ==
  \A p \in Players :
    /\ (GoalReached(p) /\ raceParticipants[p].in /\ ~raceParticipants[p].won)
         => /\ raceParticipants'[p].won
            /\ raceParticipants'[p].lastKnownRaceProgress = ProgressOne
            /\ raceParticipants'[p].lastKnownRaceTime = matchTime
            /\ raceWinners' = Append(raceWinners,
                                     [player |-> p, time |-> matchTime, stale |-> FALSE])
    /\ (raceParticipants[p].won /\ raceParticipants'[p].in)
         => /\ raceParticipants'[p].lastKnownRaceProgress = raceParticipants[p].lastKnownRaceProgress
            /\ raceParticipants'[p].lastKnownRaceTime = raceParticipants[p].lastKnownRaceTime

\* C22: when a participant that has not finished reaches the goal its
\* progress becomes 1, its race time becomes the value of matchTime at that
\* moment and it is appended at the end of the finish list; afterwards, as
\* long as its record exists, no step (no sampling tick in particular)
\* changes its progress or its race time.
C22_FinishFreezesRecord == [][C22_Step]_vars

C22_Witness ==
  /\ sampled
  /\ Len(raceWinners) = 2
  /\ raceWinners[2].player = "A"
  /\ raceParticipants["A"].lastKnownRaceProgress = ProgressOne
  /\ raceParticipants["A"].lastKnownRaceTime = raceWinners[2].time
  /\ raceParticipants["A"].lastKnownRaceTime > 0
  /\ raceParticipants["A"].lastKnownRaceTime < matchTime

\* C23: the finish list is in ascending order of finish time: an entry never
\* has a larger race time than an entry after it, also once a finisher has
\* left the match and been taken out of the list.
C23_FinishListAscending ==
  \A i, j \in 1..Len(raceWinners) :
    i < j => raceWinners[i].time <= raceWinners[j].time

C23_Witness ==
  /\ signals = <<[event |-> "onPlayerLeftMatch", player |-> "A"]>>
  /\ Len(raceWinners) = 2
  /\ raceWinners[1].time > 0
  /\ raceWinners[1].time < raceWinners[2].time

\* one step of C24
C24_Step ==
  (Announced' = <<Changed(EndingMatch, CompletedMatch)>> \/ DeliverResetRM)
    => /\ ~raceUpdateInterval'
       /\ orphanIntervals' = 0
       /\ raceParticipants' = [p \in Players |-> NoParticipant]
       /\ raceWinners' = <<>>
       /\ matchTime' = 0
       /\ \A p \in Players : raceParticipants[p].in => stopSent'[p] >= 1

\* C24: when the tracker stops, at EndingMatch -> CompletedMatch or when
\* onResetWorld is delivered, no sampling interval is left running, there is
\* no participant, the finish list is empty, matchTime is 0 and every player
\* that was a participant has been sent onStopRacePosUpdates.
C24_TrackerStops == [][C24_Step]_vars

C24_Witness ==
  /\ Announced = <<Changed(EndingMatch, CompletedMatch)>>
  /\ ~raceUpdateInterval
  /\ matchTime = 0
  /\ stopSent["B"] = 1
  /\ Len(uiText) = 1
  /\ Len(uiText[1].lines) = 1
  /\ uiText[1].lines[1].time.seconds > 0

\* the roll-call text t lists winners and participants as C25 says
C25_Text(t, winners, participants) ==
  LET labelled == {t.lines[i].player : i \in 1..Len(t.lines)}
      notFinished == {p \in DOMAIN participants : participants[p].in /\ ~participants[p].won} IN
  /\ Len(t.lines) = IF Len(winners) < 8 THEN Len(winners) ELSE 8
  /\ \A i \in 1..Len(t.lines) :
       /\ t.lines[i].label = i
       /\ t.lines[i].player = winners[i].player
       /\ t.lines[i].time = msToMinutesAndSeconds(winners[i].time)
  /\ {d.player : d \in t.dnf} = notFinished
  /\ \A d \in t.dnf :
       d.time = msToMinutesAndSeconds(participants[d.player].lastKnownRaceTime)
  /\ Cardinality(t.dnf) = Cardinality(notFinished)
  /\ \A i \in 1..Len(winners) :
       i > 8 => (winners[i].player \notin labelled
                 /\ winners[i].player \notin {d.player : d \in t.dnf})
  /\ labelled \cap {d.player : d \in t.dnf} = {}

\* one step of C25
C25_Step ==
  (Announced' = <<Changed(EndingMatch, CompletedMatch)>> \/ RollCallAtMatchEnd)
    => /\ Len(uiText') = 1
       /\ C25_Text(uiText'[1], raceWinners, raceParticipants)

\* C25: the roll-call displayed at the end of a match has one line labelled
\* 1st..8th for each of the first min(8, F) finishers, in finish order with
\* their finish times, then one 'Did Not Finish' line with its last race time
\* for every participant that has not finished; a finisher after the eighth
\* has no line of either kind and nobody has both.
C25_RollCallAtMatchEnd == [][C25_Step]_vars

C25_Witness ==
  /\ Len(raceWinners) = 9
  /\ Len(uiText) = 1
  /\ Len(uiText[1].lines) = 8
  /\ Cardinality(uiText[1].dnf) = 1
  /\ uiText[1].lines[8].time.seconds = raceWinners[8].time

\* the labelled lines of the roll-call text t are the first finishers of winners
C26_Lists(t, winners) ==
  /\ Len(t.lines) = IF Len(winners) < 8 THEN Len(winners) ELSE 8
  /\ \A i \in 1..Len(t.lines) :
       /\ t.lines[i].player = winners[i].player
       /\ t.lines[i].time = msToMinutesAndSeconds(winners[i].time)

\* the finish list as the display shows it: who finished, when, in order
C26_Finishers(winners) ==
  [i \in 1..Len(winners) |-> <<winners[i].player, winners[i].time>>]

\* a step in which the tracker stops
C26_TrackerStop == Announced' = <<Changed(EndingMatch, CompletedMatch)>> \/ DeliverResetRM

\* one step of C26
C26_Step ==
  /\ Announced' = <<Changed(EndingMatch, CompletedMatch)>>
       => /\ uiText' # <<>>
          /\ C26_Lists(uiText'[Len(uiText')], raceWinners)
  /\ (C26_Finishers(raceWinners') # C26_Finishers(raceWinners) /\ ~C26_TrackerStop)
       => /\ uiText' # <<>>
          /\ C26_Lists(uiText'[Len(uiText')], raceWinners')

\* C26: a step that changes the finish list, because a participant finishes
\* or because a finished participant leaves the match, sets a roll-call text
\* whose labelled lines are the finish list after the change, and the end of
\* the match sets one whose labelled lines are the finish list of the match;
\* so the displayed roll-call lists no finisher that has left the list.
C26_RollCallFollowsFinishList == [][C26_Step]_vars

\* one step of C26 without the case of a finisher that leaves
C26_StepFinishOrEnd ==
  /\ Announced' = <<Changed(EndingMatch, CompletedMatch)>>
       => /\ uiText' # <<>>
          /\ C26_Lists(uiText'[Len(uiText')], raceWinners)
  /\ (C26_Finishers(raceWinners') # C26_Finishers(raceWinners) /\ ~C26_TrackerStop
        /\ Len(raceWinners') > Len(raceWinners))
       => /\ uiText' # <<>>
          /\ C26_Lists(uiText'[Len(uiText')], raceWinners')

\* C26 for a finish and for the end of the match only
C26_RollCallAtFinishAndEnd == [][C26_StepFinishOrEnd]_vars

\* ------------- the match clock, with frames of different delta times
InitClock ==
  /\ present = {}
  /\ currentGameState = ReadyForMatch
  /\ startMatchTimer = NoTimer
  /\ endMatchTimer = NoTimer
  /\ newMatchTimer = NoTimer
  /\ overwrittenLive = 0
  /\ lastKnownGameState = ReadyForMatch
  /\ playerMap = [p \in Players |-> NoEntry]
  /\ raceParticipants = [p \in Players |-> NoParticipant]
  /\ raceWinners = <<>>
  /\ matchTime = 0
  /\ raceUpdateInterval = FALSE
  /\ orphanIntervals = 0
  /\ resetMM = 0
  /\ resetRM = 0
  /\ playersNeededForMatch = 1
  /\ rosterFirst \in BOOLEAN
  /\ gmExitFirst \in BOOLEAN
  /\ universe = MainPlayers
  /\ asyncReset = FALSE
  /\ resetsRaised = 0
  /\ bcast = <<>>
  /\ transited = "none"
  /\ request = NoRequest
  /\ rankSent = NoRanks
  /\ totalSent = NoRanks
  /\ stopSent = NoRanks
  /\ signals = <<>>
  /\ uiText = <<>>
  /\ sampled = FALSE
  /\ countdown = NoCountdown
  /\ raceCurve = DefaultTrack
  /\ curveCall = NoCall

NextClock ==
  \/ \E p \in Players : PlayerEnter(p)
  \/ \E p \in Players : PlayerExit(p)
  \/ \E p \in Players : QueueRequest(p)
  \/ \E p \in Players : GoalReached(p)
  \/ StartTimerTick
  \/ EndTimerTick
  \/ NewTimerTick
  \/ SamplingTick
  \/ \E dt \in 1..MaxFrame : FrameUpdateTo(dt, ClockCap)
  \/ DeliverResetMM
  \/ DeliverResetRM

SpecClock == InitClock /\ [][NextClock]_vars

\* a step in which RaceManager.reset runs
C27_TrackerReset == Announced' = <<Changed(EndingMatch, CompletedMatch)>> \/ DeliverResetRM

\* one step of C27
C27_Step ==
  /\ \A dt \in 1..MaxFrame :
       FrameUpdateTo(dt, ClockCap)
         => matchTime' = IF \E p \in Players : raceParticipants[p].in
                           THEN matchTime + dt ELSE matchTime
  /\ sampled' => matchTime' = matchTime
  /\ matchTime' < matchTime => C27_TrackerReset
  /\ (matchTime # 0 /\ matchTime' = 0) => C27_TrackerReset

\* C27: a frame adds exactly its delta time to matchTime when at least one
\* participant is registered and leaves matchTime as it is when none is; a
\* callback of the sampling interval does not change matchTime; matchTime
\* never decreases, and becomes 0 again only in a step in which the tracker
\* resets.
C27_ClockAccumulates == [][C27_Step]_vars

C27_Witness ==
  /\ matchTime = ClockCap
  /\ sampled
  /\ \E p \in Players : raceParticipants[p].in /\ raceParticipants[p].lastKnownRaceTime = 1

\* ------------- world resets delivered before the next event, and counted
InitReset ==
  /\ present = {}
  /\ currentGameState = ReadyForMatch
  /\ startMatchTimer = NoTimer
  /\ endMatchTimer = NoTimer
  /\ newMatchTimer = NoTimer
  /\ overwrittenLive = 0
  /\ lastKnownGameState = ReadyForMatch
  /\ playerMap = [p \in Players |-> NoEntry]
  /\ raceParticipants = [p \in Players |-> NoParticipant]
  /\ raceWinners = <<>>
  /\ matchTime = 0
  /\ raceUpdateInterval = FALSE
  /\ orphanIntervals = 0
  /\ resetMM = 0
  /\ resetRM = 0
  /\ playersNeededForMatch \in 1..MaxNeeded
  /\ rosterFirst \in BOOLEAN
  /\ gmExitFirst \in BOOLEAN
  /\ universe = MainPlayers
  /\ asyncReset = TRUE
  /\ resetsRaised = 0
  /\ bcast = <<>>
  /\ transited = "none"
  /\ request = NoRequest
  /\ rankSent = NoRanks
  /\ totalSent = NoRanks
  /\ stopSent = NoRanks
  /\ signals = <<>>
  /\ uiText = <<>>
  /\ sampled = FALSE
  /\ countdown = NoCountdown
  /\ raceCurve = DefaultTrack
  /\ curveCall = NoCall

\* no onResetWorld broadcast is waiting for a component
Delivered == resetMM = 0 /\ resetRM = 0

NextReset ==
  \/ Delivered /\ \E p \in Players : PlayerEnter(p)
  \/ Delivered /\ \E p \in Players : PlayerExit(p)
  \/ Delivered /\ \E p \in Players : QueueRequest(p)
  \/ Delivered /\ \E p \in Players : DequeueRequest(p)
  \/ Delivered /\ \E p \in Players : GoalReached(p)
  \/ Delivered /\ StartTimerTick
  \/ Delivered /\ EndTimerTick
  \/ Delivered /\ NewTimerTick
  \/ Delivered /\ \E dt \in 1..MaxDelta : FrameUpdate(dt)
  \/ DeliverResetMM
  \/ DeliverResetRM

SpecReset == InitReset /\ [][NextReset]_vars

\* one step of C28
C28_Step ==
  ((DeliverResetMM \/ DeliverResetRM) /\ resetMM' = 0 /\ resetRM' = 0)
    => /\ currentGameState' = ReadyForMatch
       /\ startMatchTimer' = NoTimer
       /\ endMatchTimer' = NoTimer
       /\ newMatchTimer' = NoTimer
       /\ overwrittenLive' = 0
       /\ lastKnownGameState' = ReadyForMatch
       /\ ~raceUpdateInterval'
       /\ orphanIntervals' = 0
       /\ raceParticipants' = [p \in Players |-> NoParticipant]
       /\ raceWinners' = <<>>
       /\ matchTime' = 0

game == <<present, currentGameState, startMatchTimer, endMatchTimer, newMatchTimer,
          overwrittenLive, lastKnownGameState, playerMap, raceParticipants,
          raceWinners, matchTime, raceUpdateInterval, orphanIntervals, resetMM,
          resetRM, playersNeededForMatch, rosterFirst, gmExitFirst, universe,
          asyncReset, resetsRaised, bcast, transited, request, rankSent,
          totalSent, stopSent, signals, uiText, sampled, countdown, raceCurve>>

\* the managers after construction, before any player enters
GameAtRest ==
  /\ present = {}
  /\ currentGameState = ReadyForMatch
  /\ startMatchTimer = NoTimer
  /\ endMatchTimer = NoTimer
  /\ newMatchTimer = NoTimer
  /\ overwrittenLive = 0
  /\ lastKnownGameState = ReadyForMatch
  /\ playerMap = [p \in Players |-> NoEntry]
  /\ raceParticipants = [p \in Players |-> NoParticipant]
  /\ raceWinners = <<>>
  /\ matchTime = 0
  /\ raceUpdateInterval = FALSE
  /\ orphanIntervals = 0
  /\ resetMM = 0
  /\ resetRM = 0
  /\ playersNeededForMatch = 1
  /\ rosterFirst = TRUE
  /\ gmExitFirst = TRUE
  /\ universe = MainPlayers
  /\ asyncReset = FALSE
  /\ resetsRaised = 0
  /\ bcast = <<>>
  /\ transited = "none"
  /\ request = NoRequest
  /\ rankSent = NoRanks
  /\ totalSent = NoRanks
  /\ stopSent = NoRanks
  /\ signals = <<>>
  /\ uiText = <<>>
  /\ sampled = FALSE
  /\ countdown = NoCountdown

\* the checkpoints of a track with control points 0..n: along the x axis, or
\* leaving it in y and z
Shapes == {"line", "zigzag"}
Track(n, shape) ==
  [j \in 1..(n + 1) |->
     IF shape = "line" THEN Vec3(fromInt(j - 1), FZero, FZero)
     ELSE Vec3(fromInt(j - 1), fromInt((j - 1) % 2), fromInt(((j - 1) * (j - 1)) % 3))]

InitCurve ==
  /\ GameAtRest
  /\ \E n \in 1..MaxN : \E shape \in Shapes : raceCurve = Track(n, shape)
  /\ curveCall = NoCall

\* a call raceCurve.interpolate(t), the first call of the run
Interpolate(t) ==
  /\ curveCall = NoCall
  /\ curveCall' = [fn |-> "interpolate", t |-> t,
                   at |-> interpolateIndices(raceCurve, t),
                   result |-> interpolate(raceCurve, t)]
  /\ UNCHANGED game

\* the number i / n
Ratio(i, n) == fdiv(fromInt(i), fromInt(n))

NextCurve ==
  \/ \E i \in 0..(Len(raceCurve) - 1) : Interpolate(Ratio(i, Len(raceCurve) - 1))
  \/ \E k \in 0..GridSteps : Interpolate(Ratio(k, GridSteps))

SpecCurve == InitCurve /\ [][NextCurve]_vars

\* the four indices of the last interpolate call lie in 0..n
C29_IndicesInRange ==
  curveCall.fn = "interpolate" =>
    \A k \in 1..4 : curveCall.at[k] \in 0..(Len(raceCurve) - 1)

\* the last interpolate call, when its argument is i / n, returned control
\* point i
C29_ExactAtControlPoints ==
  curveCall.fn = "interpolate" =>
    \A i \in 0..(Len(raceCurve) - 1) :
      curveCall.t = Ratio(i, Len(raceCurve) - 1) => curveCall.result = raceCurve[i + 1]

\* C29: for a curve with control points 0..n, n >= 1, interpolate(i / n) is
\* exactly control point i for every i in 0..n, and for every t in [0, 1] each
\* of the four indices interpolate(t) reads lies in 0..n.
C29_InterpolateThroughControlPoints == C29_ExactAtControlPoints /\ C29_IndicesInRange

\* ------------------------- the search on a path of two control points
Origin == Vec3(FZero, FZero, FZero)

\* the point halfway between the two control points, and the mirror image of
\* the second in the first
Midpoint(controlPoints) ==
  Vec3(fdiv(fadd(controlPoints[1].x, controlPoints[2].x), fromInt(2)),
       fdiv(fadd(controlPoints[1].y, controlPoints[2].y), fromInt(2)),
       fdiv(fadd(controlPoints[1].z, controlPoints[2].z), fromInt(2)))
Mirror(controlPoints) == Vec3_sub(controlPoints[1], Vec3_sub(controlPoints[2], controlPoints[1]))

\* positions of a player the search is asked about
Targets(controlPoints) ==
  {Midpoint(controlPoints), controlPoints[1], controlPoints[2], Mirror(controlPoints)}

InitSearch ==
  /\ GameAtRest
  /\ \E x \in 0..MaxCoord : \E y \in 0..MaxCoord : \E z \in 0..MaxCoord :
       /\ x + y + z > 0
       /\ raceCurve = <<Origin, Vec3(fromInt(x), fromInt(y), fromInt(z))>>
  /\ curveCall = NoCall

\* a call raceCurve.findClosestPointCurveProgress(target), the first call of
\* the run
ClosestProgress(target) ==
  /\ curveCall = NoCall
  /\ curveCall' = [fn |-> "findClosestPointCurveProgress", target |-> target,
                   result |-> Curve_findClosestPointCurveProgress(raceCurve, target)]
  /\ UNCHANGED game

NextSearch ==
  \/ \E target \in Targets(raceCurve) : ClosestProgress(target)
  \/ \E k \in 0..GridSteps : Interpolate(Ratio(k, GridSteps))

SpecSearch == InitSearch /\ [][NextSearch]_vars

\* the search was called
C30_Searched == curveCall.fn = "findClosestPointCurveProgress"

\* what a distance may lose when t moves by the search tolerance: the
\* squared distance changes by less than 300 per unit of t on these paths
C30_Slack == Ratio(1, 32)

\* no t = k / GridSteps with k in ks is closer to the target, by more than
\* the slack, than the t the search returned
C30_NoCloser(ks) ==
  \A k \in ks :
    ~fless(fadd(distanceAt(raceCurve, curveCall.target, Ratio(k, GridSteps)), C30_Slack),
           distanceAt(raceCurve, curveCall.target, curveCall.result))

\* the result lies in [0, 1]
C30_ResultInRange ==
  C30_Searched => ~fless(curveCall.result, FZero) /\ ~fless(fromInt(1), curveCall.result)

\* the result is as close to the target as any t = k / GridSteps below 1
C30_MinimalBelowOne == C30_Searched => C30_NoCloser(0..(GridSteps - 1))

\* C30: on a path of two control points A and B, closestProgress(P) returns,
\* within the search tolerance, the t in [0, 1] for which interpolate(t) is
\* closest to P; for P the midpoint of A and B the result is 0.5 within the
\* tolerance and interpolate(0.5) is that midpoint.
C30_ClosestProgressOnStraightPath ==
  C30_Searched =>
    /\ C30_ResultInRange
    /\ C30_NoCloser(0..GridSteps)
    /\ curveCall.target = Midpoint(raceCurve) =>
         /\ ~fless(searchTolerance, fabs(fsub(curveCall.result, Half)))
         /\ interpolate(raceCurve, Half) = Midpoint(raceCurve)

\* C30 for the midpoint alone, and for the other targets alone
C30_Midpoint ==
  (C30_Searched /\ curveCall.target = Midpoint(raceCurve)) => C30_ClosestProgressOnStraightPath
C30_OtherTargets ==
  (C30_Searched /\ curveCall.target # Midpoint(raceCurve)) => C30_ClosestProgressOnStraightPath

\* C30 without the end of the path, for the targets other than the midpoint
C30_OtherTargetsBelowOne ==
  (C30_Searched /\ curveCall.target # Midpoint(raceCurve)) => C30_MinimalBelowOne

\* ------------------------------- a track with fewer than 2 checkpoints
\* RaceManager.preStart builds raceCurve from the children of
\* trackPointsParent, however few they are
InitDegenerate ==
  /\ GameAtRest
  /\ \E n \in -1..1 : raceCurve = Track(n, "line")
  /\ curveCall = NoCall

\* a sampling callback while no racer has moved appreciably: it makes no
\* call to raceCurve
SamplingTickAtRest ==
  /\ Quiet
  /\ raceUpdateInterval \/ orphanIntervals > 0
  /\ \E ord \in Orders : Commit(raceUpdate(Cur, [p \in Players |-> 0], ord))

\* the call that a sampling callback makes for a racer who has moved to
\* target
Projection(target) ==
  /\ raceUpdateInterval
  /\ ClosestProgress(target)

NextDegenerate ==
  \/ \E p \in Players : PlayerEnter(p)
  \/ \E p \in Players : PlayerExit(p)
  \/ \E p \in Players : QueueRequest(p)
  \/ StartTimerTick
  \/ SamplingTickAtRest
  \/ Projection(Vec3(fromInt(1), FZero, FZero))

SpecDegenerate == InitDegenerate /\ [][NextDegenerate]_vars

\* C31: on a curve built from fewer than 2 control points the sampling
\* interval is never started and no sampling callback ever runs, so that no
\* rank is ever computed
C31_NoTrackingOnDegenerateCurve ==
  Len(raceCurve) < 2 =>
    /\ ~raceUpdateInterval
    /\ ~sampled
    /\ \A p \in Players : rankSent[p] = 0

\* on a curve of one control point the search returns a progress for any
\* target; on a curve of none it throws
C31_ProjectionOnOnePoint ==
  (Len(raceCurve) = 1 /\ C30_Searched) => ~Threw(curveCall.result)
C31_ProjectionOnNoPoint ==
  (Len(raceCurve) = 0 /\ C30_Searched) => Threw(curveCall.result)

\* ------------------------------------------ countdowns of any duration
\* the state after transitFromReadyToStarting where props.timeToMatchStartMS
\* is a multiple of 500 ms: A has queued, B is in the lobby or has queued
InitCountdown ==
  /\ present = MainPlayers
  /\ currentGameState = StartingMatch
  /\ \E k \in 1..MaxCountdown : startMatchTimer = newInterval(k * (TickMS \div 2))
  /\ endMatchTimer = NoTimer
  /\ newMatchTimer = NoTimer
  /\ overwrittenLive = 0
  /\ lastKnownGameState = StartingMatch
  /\ \E other \in {Lobby, Standby} :
       playerMap = [p \in Players |-> IF p = "A" THEN Standby
                                      ELSE IF p = "B" THEN other ELSE NoEntry]
  /\ raceParticipants = [p \in Players |-> NoParticipant]
  /\ raceWinners = <<>>
  /\ matchTime = 0
  /\ raceUpdateInterval = FALSE
  /\ orphanIntervals = 0
  /\ resetMM = 0
  /\ resetRM = 0
  /\ playersNeededForMatch = 1
  /\ rosterFirst \in BOOLEAN
  /\ gmExitFirst \in BOOLEAN
  /\ universe = MainPlayers
  /\ asyncReset = FALSE
  /\ resetsRaised = 0
  /\ bcast = <<>>
  /\ transited = "none"
  /\ request = NoRequest
  /\ rankSent = NoRanks
  /\ totalSent = NoRanks
  /\ stopSent = NoRanks
  /\ signals = <<>>
  /\ uiText = <<>>
  /\ sampled = FALSE
  /\ countdown = NoCountdown
  /\ raceCurve = DefaultTrack
  /\ curveCall = NoCall

\* no queue request: the start countdown of InitCountdown is the only one
NextCountdown ==
  \/ \E p \in Players : PlayerExit(p)
  \/ \E p \in Players : DequeueRequest(p)
  \/ \E p \in Players : GoalReached(p)
  \/ StartTimerTick
  \/ EndTimerTick
  \/ NewTimerTick
  \/ DeliverResetMM
  \/ DeliverResetRM

SpecCountdown == InitCountdown /\ [][NextCountdown]_vars

\* what one step may do with the countdown that timer names: a callback
\* while timerMS > 0 runs the tick action with timerMS and takes 1000 off,
\* a callback at timerMS <= 0 runs the end action (a transition request from
\* phase) and cancels the interval, and no other step runs either action
C32_Countdown(callback, timer, timerAfter, event, phase, phaseAfter) ==
  /\ callback =>
       /\ timer.live
       /\ IF timer.timerMS > 0
            THEN /\ countdown' = [event |-> event, timeLeftMS |-> timer.timerMS]
                 /\ timerAfter = [timer EXCEPT !.timerMS = @ - 1000, !.elapsedMS = @ + 1000]
                 /\ transited' = "none"
                 /\ currentGameState = phase /\ currentGameState' = phase
            ELSE /\ countdown' = NoCountdown
                 /\ ~timerAfter.live
                 /\ transited' = "true"
                 /\ currentGameState = phase /\ currentGameState' = phaseAfter
  /\ ~callback =>
       /\ countdown'.event # event
       /\ ~(currentGameState = phase /\ currentGameState' = phaseAfter)
       /\ timerAfter.live => timerAfter = timer \/ timerAfter.elapsedMS = 0

\* C32: a countdown of duration D ticks with D, D - 1000, ... while the
\* value is above 0, then runs its end action once and cancels itself, and
\* neither action runs afterwards; the start and end countdown events are
\* sent in StartingMatch and EndingMatch only
C32_Step ==
  /\ C32_Countdown(StartTimerTick, startMatchTimer, startMatchTimer',
                   "onGameStartTimeLeft", StartingMatch, PlayingMatch)
  /\ C32_Countdown(EndTimerTick, endMatchTimer, endMatchTimer',
                   "onGameEndTimeLeft", EndingMatch, CompletedMatch)

C32_CountdownTicksThenEnds == [][C32_Step]_vars

\* the last tick of a start countdown of 1500 ms: the value is 500 and the
\* next callback is the end
C32_Witness ==
  /\ countdown = [event |-> "onGameStartTimeLeft", timeLeftMS |-> 500]
  /\ startMatchTimer = [live |-> TRUE, timerMS |-> -500, elapsedMS |-> 2000]
  /\ currentGameState = StartingMatch

\* the records ahead of p, and level with p, by the progress they hold
C33_Ahead(rp, p) ==
  {q \in Players : rp[q].in /\ rp[q].lastKnownRaceProgress > rp[p].lastKnownRaceProgress}
C33_Level(rp, p) ==
  {q \in Players \ {p} : rp[q].in /\ rp[q].lastKnownRaceProgress = rp[p].lastKnownRaceProgress}

\* one step of C33
C33_Step ==
  sampled' =>
    /\ \A p \in Players :
         (raceParticipants'[p].in /\ ~raceParticipants'[p].won) =>
           /\ raceParticipants'[p].lastKnownRaceProgress
                = findClosestPointCurveProgress(raceParticipants'[p].lastKnownPosition)
           /\ rankSent'[p] >= 1 + Cardinality(C33_Ahead(raceParticipants', p))
           /\ rankSent'[p] <= 1 + Cardinality(C33_Ahead(raceParticipants', p))
                                + Cardinality(C33_Level(raceParticipants', p))
    /\ \A p, q \in Players :
         (p # q /\ rankSent'[p] > 0) => rankSent'[p] # rankSent'[q]

\* C33: every rankUpdate of a sampling tick is the place of its receiver in
\* one order of the progress values that the records hold after the tick:
\* the progress of every unfinished participant is recomputed before the
\* sort and before the first rankUpdate is sent
C33_ProgressBeforeRanking == [][C33_Step]_vars

\* a tick in which B, moved to the end of the track, is ranked ahead of A
C33_Witness ==
  /\ sampled
  /\ rankSent["B"] = 1
  /\ rankSent["A"] = 2
  /\ raceParticipants["B"].lastKnownPosition = Metre * MaxPos
  /\ raceParticipants["B"].lastKnownRaceProgress > raceParticipants["A"].lastKnownRaceProgress
  /\ raceParticipants["B"].lastKnownRaceTime = matchTime
  /\ raceParticipants["A"].lastKnownRaceTime < matchTime

\* ------------------------------- sampling at every half metre of the track
\* a race of A and B just after StartingMatch -> PlayingMatch
InitSampling ==
  /\ present = MainPlayers
  /\ currentGameState = PlayingMatch
  /\ startMatchTimer = NoTimer
  /\ endMatchTimer = NoTimer
  /\ newMatchTimer = NoTimer
  /\ overwrittenLive = 0
  /\ lastKnownGameState = PlayingMatch
  /\ playerMap = [p \in Players |-> IF p \in MainPlayers THEN Playing ELSE NoEntry]
  /\ raceParticipants = [p \in Players |->
                           IF p \in MainPlayers THEN NewParticipant ELSE NoParticipant]
  /\ raceWinners = <<>>
  /\ matchTime = 0
  /\ raceUpdateInterval = TRUE
  /\ orphanIntervals = 0
  /\ resetMM = 0
  /\ resetRM = 0
  /\ playersNeededForMatch = 1
  /\ rosterFirst = TRUE
  /\ gmExitFirst = TRUE
  /\ universe = MainPlayers
  /\ asyncReset = FALSE
  /\ resetsRaised = 0
  /\ bcast = <<>>
  /\ transited = "none"
  /\ request = NoRequest
  /\ rankSent = NoRanks
  /\ totalSent = NoRanks
  /\ stopSent = NoRanks
  /\ signals = <<>>
  /\ uiText = <<>>
  /\ sampled = FALSE
  /\ countdown = NoCountdown
  /\ raceCurve = DefaultTrack
  /\ curveCall = NoCall

\* the positions the racers may be sampled at, and the orders in which
\* their records may have been inserted
Positions == 0..(Metre * MaxPos)
SampledPositions ==
  {[p \in Players |-> IF p \in MainPlayers THEN at[p] ELSE 0] : at \in [MainPlayers -> Positions]}
RacerOrders == {ord \in Orders : \A p \in MainPlayers : ord[p] <= Cardinality(MainPlayers)}

\* one callback of the sampling interval with the players at pos
SamplingAt(pos, ord) ==
  /\ Quiet
  /\ raceUpdateInterval \/ orphanIntervals > 0
  /\ \A p \in Players : ~raceParticipants[p].in => pos[p] = 0
  /\ Commit(raceUpdate(Cur, pos, ord))

NextSampling ==
  \/ \E pos \in SampledPositions, ord \in RacerOrders : SamplingAt(pos, ord)
  \/ FrameUpdateTo(1, 1)
  \/ \E p \in Players : GoalReached(p)

SpecSampling == InitSampling /\ [][NextSampling]_vars

\* the squared distance of a and b exceeds 0.5 square metres
C34_Exceeds(a, b) == 2 * ((a - b) * (a - b)) > Metre * Metre

\* one step of C34
C34_Step ==
  \A pos \in SampledPositions, ord \in RacerOrders :
    SamplingAt(pos, ord) =>
      \A p \in Players :
        raceParticipants[p].in =>
          IF ~raceParticipants[p].won /\ C34_Exceeds(pos[p], raceParticipants[p].lastKnownPosition)
            THEN raceParticipants'[p] =
                   [raceParticipants[p] EXCEPT
                      !.lastKnownRaceProgress = findClosestPointCurveProgress(pos[p]),
                      !.lastKnownRaceTime = matchTime,
                      !.lastKnownPosition = pos[p]]
            ELSE raceParticipants'[p] = raceParticipants[p]

\* C34: a sampling tick leaves the progress, the elapsed time and the last
\* position of an unfinished participant unchanged when the squared distance
\* from its last sampled position does not exceed the threshold, updates
\* the three together when it does, and never updates a finished participant
C34_UpdateOnlyBeyondThreshold == [][C34_Step]_vars

\* a tick, with the clock at 1, that kept the record of A, half a metre from
\* its last sampled position or at it, and updated B, a metre from its own
C34_Witness ==
  /\ sampled
  /\ matchTime = 1
  /\ raceParticipants["A"] = NewParticipant
  /\ raceParticipants["B"] = [NewParticipant EXCEPT !.lastKnownRaceProgress = Metre,
                                                    !.lastKnownRaceTime = 1,
                                                    !.lastKnownPosition = Metre]

\* --------------------------------- the loop of the search, run by run
\* the call goldenSectionSearch(f, 0, 1, 1e-4) for a target, up to its loop
SearchBegin(target) ==
  /\ curveCall = NoCall
  /\ curveCall' = [fn |-> "goldenSectionSearch", target |-> target,
                   l |-> goldenSectionLocals(FZero, fromInt(1)),
                   iterations |-> 0, lessCount |-> 0, returned |-> FALSE, result |-> FZero]
  /\ UNCHANGED game

\* the call as one run of the loop body leaves it, fc and fd being f(c) and
\* f(d): iterations counts the runs, lessCount those with f(c) < f(d)
SearchAfterBody(call, fc, fd) ==
  IF Threw(fc) \/ Threw(fd)
    THEN [call EXCEPT !.returned = TRUE, !.result = TypeError]
    ELSE [call EXCEPT !.l = goldenSectionBody(@, fc, fd),
                      !.iterations = @ + 1,
                      !.lessCount = IF fless(fc, fd) THEN @ + 1 ELSE @]

\* one run of the loop body
SearchIterate ==
  /\ curveCall.fn = "goldenSectionSearch"
  /\ ~curveCall.returned
  /\ goldenSectionGoesOn(curveCall.l, searchTolerance)
  /\ curveCall' = SearchAfterBody(curveCall,
                                  distanceAt(raceCurve, curveCall.target, curveCall.l.c),
                                  distanceAt(raceCurve, curveCall.target, curveCall.l.d))
  /\ UNCHANGED game

\* the return after the loop
SearchReturn ==
  /\ curveCall.fn = "goldenSectionSearch"
  /\ ~curveCall.returned
  /\ ~goldenSectionGoesOn(curveCall.l, searchTolerance)
  /\ curveCall' = [curveCall EXCEPT !.returned = TRUE, !.result = goldenSectionResult(curveCall.l)]
  /\ UNCHANGED game

NextBracket ==
  \/ \E target \in Targets(raceCurve) : SearchBegin(target)
  \/ SearchIterate
  \/ SearchReturn

\* a call that has not returned: the loop test passes and SearchIterate is
\* enabled, or it fails and SearchReturn is
SearchRunning == curveCall.fn = "goldenSectionSearch" /\ ~curveCall.returned

\* the loop is synchronous code, a run of the body or the return follows as
\* soon as it can: WF_vars(SearchIterate \/ SearchReturn), with SearchRunning
\* written for ENABLED <<SearchIterate \/ SearchReturn>>_vars
SpecBracket ==
  /\ InitSearch
  /\ [][NextBracket]_vars
  /\ ([]<>~SearchRunning \/ []<><<SearchIterate \/ SearchReturn>>_vars)

\* a <= b
C35_AtMost(a, b) == ~fless(b, a)

\* the width of the bracket
C35_Width(l) == fabs(fsub(l.b, l.a))

C35_Begun == curveCall.fn = "goldenSectionSearch"
C35_Returned == C35_Begun /\ curveCall.returned

\* one step of C35: a run of the body leaves a bracket inside the one before
\* and strictly narrower; the value returned is a number from 0 to 1
C35_Step ==
  (C35_Begun /\ ~curveCall.returned) =>
    IF curveCall'.returned
      THEN /\ ~Threw(curveCall'.result)
           /\ C35_AtMost(FZero, curveCall'.result)
           /\ C35_AtMost(curveCall'.result, fromInt(1))
      ELSE /\ C35_AtMost(curveCall.l.a, curveCall'.l.a)
           /\ C35_AtMost(curveCall'.l.a, curveCall'.l.b)
           /\ C35_AtMost(curveCall'.l.b, curveCall.l.b)
           /\ fless(C35_Width(curveCall'.l), C35_Width(curveCall.l))

\* C35: for every target the golden-section search over [0, 1] with
\* tolerance 1e-4 terminates, its bracket [a, b] shrinking strictly on every
\* run of the loop body whatever the comparison gives, and returns a t with
\* 0 <= t <= 1
C35_SearchTerminates == [][C35_Step]_vars /\ (C35_Begun ~> C35_Returned)

\* a search that has returned after runs of the body of both kinds
C35_Witness ==
  /\ C35_Returned
  /\ curveCall.lessCount > 0
  /\ curveCall.lessCount < curveCall.iterations

\* ---------------------------------------------- invariants between managers
\* every broadcast raised by the events so far has been delivered
Handled == resetMM = 0 /\ resetRM = 0

\* C36: after every event has been fully handled, the phase recorded by the
\* roster (MatchManager.lastKnownGameState) is the phase held by GameManager
C36_RosterPhaseIsHeldPhase == Handled => lastKnownGameState = currentGameState

\* the sampling intervals that are live
LiveSamplingTimers == (IF raceUpdateInterval THEN 1 ELSE 0) + orphanIntervals

\* C37: after every event has been fully handled, the tracker has a live
\* sampling timer or a participant only if the held phase is PlayingMatch or
\* EndingMatch, and at most one sampling timer is live
C37_TrackerLiveOnlyInMatch ==
  Handled =>
    /\ (LiveSamplingTimers > 0 \/ \E p \in Players : raceParticipants[p].in)
         => currentGameState \in {PlayingMatch, EndingMatch}
    /\ LiveSamplingTimers <= 1

\* ------------------------------------------- a departure during the match
\* the events of Spec with the interval callbacks run whenever they are due
\* (async.setInterval), every broadcast delivered, and a goal-reached signal
\* raised whenever it would change something
SpecFair ==
  /\ Init
  /\ [][Next]_vars
  /\ WF_vars(StartTimerTick)
  /\ WF_vars(EndTimerTick)
  /\ WF_vars(NewTimerTick)
  /\ WF_vars(SamplingTick)
  /\ WF_vars(DeliverResetMM)
  /\ WF_vars(DeliverResetRM)
  /\ WF_vars(\E p \in Players : GoalReached(p))

\* a participant has just left the world with the roster in PlayingMatch or
\* EndingMatch, and another player is present
C38_ParticipantLeft ==
  /\ \E i \in 1..Len(signals) : signals[i].event = "onPlayerLeftMatch"
  /\ lastKnownGameState \in {PlayingMatch, EndingMatch}
  /\ present # {}

\* ReadyForMatch in the machine and in the roster, the tracker idle, every
\* roster entry Lobby, queue requests accepted
C38_AtRest ==
  /\ currentGameState = ReadyForMatch
  /\ lastKnownGameState = ReadyForMatch
  /\ LiveSamplingTimers = 0
  /\ \A p \in Players : ~raceParticipants[p].in
  /\ raceWinners = <<>>
  /\ \A p \in Players : playerMap[p] \in {NoEntry, Lobby}

\* C38: when a participant leaves the world during PlayingMatch or
\* EndingMatch and another player remains, the match still completes: with
\* fair timers and goal-reached signals the system comes back to rest
C38_MatchCompletesAfterDeparture == C38_ParticipantLeft ~> C38_AtRest

\* C39: after every event has been fully handled, while the held phase is
\* StartingMatch at least playersNeededForMatch roster entries are Queued
C39_StartingHasEnoughQueued ==
  (Handled /\ currentGameState = StartingMatch)
    => Cardinality(getPlayersWithStatus(Cur, Standby)) >= playersNeededForMatch

\* C40: after every event has been fully handled, every entry of the finish
\* list is a record of raceParticipants, and every identity with a record in
\* raceParticipants has a roster entry with status Playing
C40_FinishersParticipateAndParticipantsPlay ==
  Handled =>
    /\ \A i \in 1..Len(raceWinners) :
         ~raceWinners[i].stale /\ raceParticipants[raceWinners[i].player].in
    /\ \A p \in Players : raceParticipants[p].in => playerMap[p] = Playing

\* a participant has just left the match and the finish list is not empty
C40_Witness ==
  /\ Handled
  /\ \E i \in 1..Len(signals) : signals[i].event = "onPlayerLeftMatch"
  /\ raceWinners # <<>>
  /\ \E p \in Players : raceParticipants[p].in /\ ~raceParticipants[p].won

====
